---- MODULE Spec2Model ----
(***************************************************************************)
(* Weather ingestion with fallback, and the risk scorer, of the wildfire   *)
(* cascade backend (backend/ingest/weather.py, backend/ingest/cache.py,    *)
(* backend/model/risk_model.py, backend/features/geo.py).                  *)
(*                                                                         *)
(* Python floats are modelled as fixed-point integers:                     *)
(*   - "micro" values carry Scale = 10^6 units per 1.0 (sines, cosines,    *)
(*     radians, the linear score, the risk);                               *)
(*   - angles in degrees are in millidegrees (mdeg);                       *)
(*   - temperature, humidity and wind speed are in hundredths (centi);     *)
(*   - distances are in millimetres (10^-6 km).                            *)
(* TLC's integers are 32 bits wide, so products of two micro values are    *)
(* formed limb by limb (MulFix) and never overflow.                        *)
(***************************************************************************)
EXTENDS Integers, Sequences, FiniteSets, TLC

----------------------------------------------------------------------------
(* Fixed-point arithmetic standing for Python's float arithmetic.          *)

Scale == 10^6
Limb == 10^3

Abs(x) == IF x < 0 THEN -x ELSE x

Sign(x) == IF x < 0 THEN -1 ELSE IF x > 0 THEN 1 ELSE 0

Max2(a, b) == IF a >= b THEN a ELSE b

Min2(a, b) == IF a <= b THEN a ELSE b

\* floor(a*b/Scale) for a, b >= 0, by limbs of 10^3.
MulFixNat(a, b) ==
    LET a1 == a \div Limb
        a0 == a % Limb
        b1 == b \div Limb
        b0 == b % Limb
        m  == a1 * b0 + a0 * b1
    IN  a1 * b1 + (m \div Limb) + (((m % Limb) * Limb + a0 * b0) \div Scale)

\* a*b/Scale, truncated toward zero.
MulFix(a, b) == Sign(a) * Sign(b) * MulFixNat(Abs(a), Abs(b))

\* floor(a*b/c) for a, b >= 0 and 0 < c < 2^26 with no intermediate above
\* 2^31: long multiplication by the base-16 digits of b, keeping quotient
\* and remainder.
RECURSIVE MulDivQR(_, _, _)
MulDivQR(a, b, c) ==
    IF b = 0 THEN <<0, 0>>
    ELSE LET h  == MulDivQR(a, b \div 16, c)
             r2 == 16 * h[2] + (b % 16) * (a % c)
             q2 == 16 * h[1] + (b % 16) * (a \div c)
         IN  <<q2 + (r2 \div c), r2 % c>>

MulDiv(a, b, c) == MulDivQR(a, b, c)[1]

\* a/b rounded to the nearest integer, halves to the even neighbour
\* (Python's round(), and the rounding of a float division); b > 0.
DivRound(a, b) ==
    LET q == a \div b
        r == a % b
    IN  IF 2 * r < b THEN q
        ELSE IF 2 * r > b THEN q + 1
        ELSE IF q % 2 = 0 THEN q ELSE q + 1

RECURSIVE SumSeq(_)
SumSeq(s) == IF s = <<>> THEN 0 ELSE Head(s) + SumSeq(Tail(s))

\* s[:n] for n >= 0.
Take(s, n) == SubSeq(s, 1, Min2(n, Len(s)))

\* s[-n:] for n >= 1.
TakeLast(s, n) == SubSeq(s, Max2(1, Len(s) - n + 1), Len(s))

\* statistics.mean of a non-empty sequence of centi values, to the nearest centi.
Mean(vals) == DivRound(SumSeq(vals), Len(vals))

----------------------------------------------------------------------------
(* math.radians, math.sin, math.cos, math.atan2, math.degrees              *)

\* pi/180 in micro-radians per millidegree, times Scale.
RadPerMdeg == 17453293

\* math.radians of an angle of 0..90000 mdeg, in micro-radians.
Radians(a) == MulFixNat(a, RadPerMdeg)

\* <<p, p*x2, p*x2^2, ...>>, n entries.
RECURSIVE Powers(_, _, _)
Powers(p, x2, n) ==
    IF n = 0 THEN <<>> ELSE <<p>> \o Powers(MulFixNat(p, x2), x2, n - 1)

SinTerms(p) == p[1] - DivRound(p[2], 6) + DivRound(p[3], 120) - DivRound(p[4], 5040)

CosTerms(p) ==
    p[1] - DivRound(p[2], 2) + DivRound(p[3], 24) - DivRound(p[4], 720)
      + DivRound(p[5], 40320)

\* Taylor series on [0, pi/4], micro in and out.
SinSeries(x) == SinTerms(Powers(x, MulFixNat(x, x), 4))

CosSeries(x) == CosTerms(Powers(Scale, MulFixNat(x, x), 5))

\* sin and cos of a first-quadrant angle, 0..90000 mdeg.
SinQ(a) == IF a <= 45000 THEN SinSeries(Radians(a)) ELSE CosSeries(Radians(90000 - a))

CosQ(a) == SinQ(90000 - a)

\* math.sin(math.radians(a)) for any angle a in mdeg.
SinDeg(a) ==
    LET r == a % 360000
    IN  (IF r <= 180000 THEN 1 ELSE -1)
          * SinQ(IF r <= 90000 THEN r
                 ELSE IF r <= 180000 THEN 180000 - r
                 ELSE IF r <= 270000 THEN r - 180000
                 ELSE 360000 - r)

\* math.cos(math.radians(a)) for any angle a in mdeg.
CosDeg(a) == SinDeg(a + 90000)

\* The largest angle t of lo..hi (mdeg, first quadrant) with
\* sin(t)*ax <= cos(t)*ay, that is tan(t) <= ay/ax: bisection.
RECURSIVE AtanSearch(_, _, _, _)
AtanSearch(ay, ax, lo, hi) ==
    LET leaf == hi - lo <= 1
        t == IF leaf THEN hi ELSE (lo + hi) \div 2
    IN  IF MulFixNat(SinQ(t), ax) <= MulFixNat(CosQ(t), ay)
        THEN (IF leaf THEN hi ELSE AtanSearch(ay, ax, t, hi))
        ELSE (IF leaf THEN lo ELSE AtanSearch(ay, ax, lo, t))

\* math.degrees(math.atan2(y, x)) in mdeg, in -180000..180000; atan2(0, 0) = 0.
\* y is never the float -0.0 here (the sums start from 0.0), so -180 arises
\* only by rounding of an angle just above it.
Atan2Deg(y, x) ==
    IF y = 0 THEN (IF x >= 0 THEN 0 ELSE 180000)
    ELSE Sign(y) * ((IF x >= 0 THEN 0 ELSE 180000)
                      + (IF x >= 0 THEN 1 ELSE -1)
                          * AtanSearch(Abs(y), Abs(x), 0, 90000))

----------------------------------------------------------------------------
(* Strings the code inspects character by character are sequences of       *)
(* one-character strings; str.strip() and str.lower() act on them.         *)

UpperChars == <<"A","B","C","D","E","F","G","H","I","J","K","L","M",
                "N","O","P","Q","R","S","T","U","V","W","X","Y","Z">>

LowerChars == <<"a","b","c","d","e","f","g","h","i","j","k","l","m",
                "n","o","p","q","r","s","t","u","v","w","x","y","z">>

Whitespace == {" ", "\t", "\n", "\r"}

LowerChar(c) ==
    IF \E i \in 1..Len(UpperChars) : UpperChars[i] = c
    THEN LowerChars[CHOOSE i \in 1..Len(UpperChars) : UpperChars[i] = c]
    ELSE c

\* str.lower()
Lower(s) == [i \in 1..Len(s) |-> LowerChar(s[i])]

RECURSIVE LStrip(_)
LStrip(s) == IF s # <<>> /\ Head(s) \in Whitespace THEN LStrip(Tail(s)) ELSE s

RECURSIVE RStrip(_)
RStrip(s) ==
    IF s # <<>> /\ s[Len(s)] \in Whitespace THEN RStrip(SubSeq(s, 1, Len(s) - 1)) ELSE s

\* str.strip()
Strip(s) == RStrip(LStrip(s))

GRIDMET == <<"g","r","i","d","m","e","t">>

OPENMETEO == <<"o","p","e","n","m","e","t","e","o">>

----------------------------------------------------------------------------
(* backend/ingest/cache.py: one JSON file per name under CACHE_DIR.  The   *)
(* directory is a function from the names that have a file to the payload  *)
(* {timestamp, data}; json.dump followed by json.load returns the summary  *)
(* dictionaries (string keys, finite floats, strings) unchanged.           *)

None == [none |-> TRUE]

\* The mutant of load_cache for which an entry is stale from max_age_seconds on.
load_cache_stale_at_limit(c, t, name, max_age_seconds) ==
    IF name \notin DOMAIN c THEN None
    ELSE LET payload == c[name]
         IN  IF "timestamp" \notin DOMAIN payload THEN None
             ELSE IF t - payload.timestamp >= max_age_seconds THEN None
             ELSE IF "data" \in DOMAIN payload THEN payload.data ELSE None

\* load_cache(name, max_age_seconds) on directory c at time t.
load_cache(c, t, name, max_age_seconds) ==
    IF name \notin DOMAIN c THEN None
    ELSE LET payload == c[name]
         IN  IF "timestamp" \notin DOMAIN payload THEN None
             ELSE IF t - payload.timestamp > max_age_seconds THEN None
             ELSE IF "data" \in DOMAIN payload THEN payload.data ELSE None

\* save_cache(name, data) on directory c at time t: the directory afterwards.
save_cache(c, t, name, data) ==
    [n \in DOMAIN c \cup {name} |->
        IF n = name THEN [timestamp |-> t, data |-> data] ELSE c[n]]

----------------------------------------------------------------------------
(* backend/ingest/weather.py: the two providers.  A sample is Num(n) or,   *)
(* for the gridded arrays, NaN, or, for the JSON arrays, Null.             *)

Num(n) == [num |-> n]

NaN == [nan |-> TRUE]

Null == [null |-> TRUE]

Nums(s) == [i \in 1..Len(s) |-> Num(s[i])]

IsNum(x) == "num" \in DOMAIN x

\* The numbers of a sequence of Num samples.
Values(s) == [i \in 1..Len(s) |-> s[i].num]

Ok(v) == [raised |-> "", ret |-> v]

Raise(e) == [raised |-> e, ret |-> None]

CACHE_TTL_SECONDS == 30 * 60

\* _mean_or_default(values, default), centi.
mean_or_default(vals, default) == IF vals = <<>> THEN default ELSE Mean(vals)

RECURSIVE SinSum(_)
SinSum(vals) == IF vals = <<>> THEN 0 ELSE SinDeg(Head(vals)) + SinSum(Tail(vals))

RECURSIVE CosSum(_)
CosSum(vals) == IF vals = <<>> THEN 0 ELSE CosDeg(Head(vals)) + CosSum(Tail(vals))

\* The mutant of circular_mean_deg that returns the atan2 angle as it is.
circular_mean_deg_unnormalized(vals) ==
    IF vals = <<>> THEN 180000
    ELSE IF SinSum(vals) = 0 /\ CosSum(vals) = 0 THEN 180000
    ELSE Atan2Deg(SinSum(vals), CosSum(vals))

\* The mutant of circular_mean_deg that averages arithmetically.
circular_mean_deg_arithmetic(vals) ==
    IF vals = <<>> THEN 180000 ELSE Mean(vals) % 360000

\* The last lines of _circular_mean_deg: the direction of the vector
\* (cos_sum, sin_sum), 180 when both sums cancel.
direction_of_sums(sin_sum, cos_sum) ==
    IF Abs(sin_sum) = 0 /\ Abs(cos_sum) = 0 THEN 180000
    ELSE (Atan2Deg(sin_sum, cos_sum) + 360000) % 360000

\* _circular_mean_deg(values), mdeg in and out.  The sums are micro values,
\* so abs(sum) < 1e-9 is sum = 0.
circular_mean_deg(vals) ==
    IF vals = <<>> THEN 180000 ELSE direction_of_sums(SinSum(vals), CosSum(vals))

\* data.get(key, []) on the "hourly" object of the response.
HourlyGet(data, key) == IF key \in DOMAIN data THEN data[key] ELSE <<>>

\* The mutant of openmeteo_take without the floor of one sample.
openmeteo_take_nofloor(hours, n) == Min2(hours, n)

\* take = max(1, min(hours, len(temperature_2m)))
openmeteo_take(hours, n) == Max2(1, Min2(hours, n))

\* fetch_openmeteo_summary(lat, lon, hours) when the provider answers o:
\* o.status is "ok" or the exception of requests.get / raise_for_status /
\* resp.json(); o.hourly is the "hourly" object.  mean() and math.radians()
\* raise TypeError on a null sample.
fetch_openmeteo_summary(o, lat, lon, hours) ==
    IF o.status # "ok" THEN Raise(o.status)
    ELSE LET data == o.hourly
             take == openmeteo_take(hours, Len(HourlyGet(data, "temperature_2m")))
             temps == Take(HourlyGet(data, "temperature_2m"), take)
             humidity == Take(HourlyGet(data, "relative_humidity_2m"), take)
             wind_speed == Take(HourlyGet(data, "wind_speed_10m"), take)
             wind_dir == Take(HourlyGet(data, "wind_direction_10m"), take)
             all == temps \o humidity \o wind_speed \o wind_dir
         IN  IF \E i \in 1..Len(all) : ~IsNum(all[i]) THEN Raise("TypeError")
             ELSE Ok([temperature_c |->
                          IF temps # <<>> THEN Mean(Values(temps)) ELSE 2500,
                      humidity_pct |->
                          IF humidity # <<>> THEN Mean(Values(humidity)) ELSE 3500,
                      wind_speed_kmh |->
                          IF wind_speed # <<>> THEN Mean(Values(wind_speed)) ELSE 1500,
                      wind_direction_deg |->
                          IF wind_dir # <<>> THEN circular_mean_deg(Values(wind_dir))
                          ELSE 180000])

GRIDMET_VARS == <<"vs", "th", "tmmn", "tmmx", "rmin", "rmax">>

\* The values of the loop "for v in values": the floats that are not NaN.
RECURSIVE NotNan(_)
NotNan(s) ==
    IF s = <<>> THEN <<>>
    ELSE IF IsNum(Head(s)) THEN <<Head(s).num>> \o NotNan(Tail(s))
    ELSE NotNan(Tail(s))

\* The mutant of gridmet_values that raises where the code returns [].
gridmet_values_strict(g, var_name, n_days) ==
    LET ds == g.ds[var_name]
    IN  IF ds.open # "ok" THEN Raise(ds.open)
        ELSE IF var_name \notin ds.vars THEN Raise("KeyError")
        ELSE IF "day" \notin ds.coords /\ "time" \notin ds.coords THEN Raise("KeyError")
        ELSE IF ds.read # "ok" THEN Raise(ds.read)
        ELSE Ok(NotNan(TakeLast(ds.series, n_days)))

\* _gridmet_values(xr, var_name, lat, lon_360, n_days) in the upstream state g.
\* g.ds[var] is the dataset behind GRIDMET_URLS[var]: open is "ok" or the
\* exception of xr.open_dataset, vars and coords its variables and coordinates,
\* read "ok" or the exception of the remote read, series the time series of
\* the grid cell nearest to (lat, lon_360).  The lru_cache of dataset handles
\* only restricts which upstream states can follow one another in a process;
\* every call here may meet any of them.
gridmet_values(g, var_name, n_days) ==
    LET ds == g.ds[var_name]
    IN  IF ds.open # "ok" THEN Raise(ds.open)
        ELSE IF var_name \notin ds.vars THEN Ok(<<>>)
        ELSE IF "day" \notin ds.coords /\ "time" \notin ds.coords THEN Ok(<<>>)
        ELSE IF ds.read # "ok" THEN Raise(ds.read)
        ELSE Ok(NotNan(TakeLast(ds.series, n_days)))

\* math.ceil(hours / 24.0)
CeilDays(hours) == -((-hours) \div 24)

\* fetch_gridmet_summary(lat, lon, hours) in the upstream state g.
fetch_gridmet_summary(g, lat, lon, hours) ==
    IF ~g.xarray THEN Raise("RuntimeError")
    ELSE LET n_days == Max2(1, CeilDays(hours))
             got == [i \in 1..Len(GRIDMET_VARS) |->
                        gridmet_values(g, GRIDMET_VARS[i], n_days)]
             failed == {i \in 1..Len(GRIDMET_VARS) : got[i].raised # ""}
         IN  IF failed # {}
             THEN Raise(got[CHOOSE i \in failed : \A j \in failed : i <= j].raised)
             ELSE LET vs_vals == got[1].ret
                      th_vals == got[2].ret
                      tmmn_vals == got[3].ret
                      tmmx_vals == got[4].ret
                      rmin_vals == got[5].ret
                      rmax_vals == got[6].ret
                      wind_speed_kmh == DivRound(mean_or_default(vs_vals, 420) * 36, 10)
                      wind_direction ==
                          IF th_vals # <<>> THEN circular_mean_deg(th_vals) ELSE 180000
                      avg_temp_raw == mean_or_default(tmmn_vals \o tmmx_vals, 29815)
                      temperature_c ==
                          IF avg_temp_raw > 15000 THEN avg_temp_raw - 27315
                          ELSE avg_temp_raw
                      humidity_pct == mean_or_default(rmin_vals \o rmax_vals, 3500)
                  IN  Ok([temperature_c |-> temperature_c,
                          humidity_pct |-> humidity_pct,
                          wind_speed_kmh |-> wind_speed_kmh,
                          wind_direction_deg |-> wind_direction,
                          weather_source |-> "gridmet"])

----------------------------------------------------------------------------
(* backend/ingest/weather.py: fetch_weather_summary.  Latitudes and        *)
(* longitudes are in 10^-4 degrees.  A call's outcome is a record: ret and *)
(* raised (what the caller sees), cache (the directory afterwards), saved  *)
(* (the names passed to save_cache, in order), and what the call did: hit  *)
(* (served from the cache), grid and om ("untried", "ok" or the exception  *)
(* the provider raised), producer (the fetch_* function that returned the  *)
(* summary, "" for none).                                                  *)

\* f"{x:.3f}" of a coordinate: thousandths of a degree.
Fmt3(x) == DivRound(x, 10)

\* The mutant of weather_cache_key that leaves the source out of the key.
weather_cache_key_nosource(lat, lon, hours, source) ==
    <<"weather", <<>>, Fmt3(lat), Fmt3(lon), hours>>

\* _cache_key(lat, lon, hours, source): the parts of the formatted name.
weather_cache_key(lat, lon, hours, source) ==
    <<"weather", source, Fmt3(lat), Fmt3(lon), hours>>

WithSource(summary, tag) ==
    [temperature_c |-> summary.temperature_c,
     humidity_pct |-> summary.humidity_pct,
     wind_speed_kmh |-> summary.wind_speed_kmh,
     wind_direction_deg |-> summary.wind_direction_deg,
     weather_source |-> tag]

Outcome(ret, raised, c, saved, hit, grid, om, producer) ==
    [ret |-> ret, raised |-> raised, cache |-> c, saved |-> saved, hit |-> hit,
     grid |-> grid, om |-> om, producer |-> producer]

\* The mutant of gridmet_except that lets the gridded failure through.
gridmet_except_reraise(c, t, cache_key, exc, o, lat, lon, hours) ==
    Outcome(None, exc, c, <<>>, FALSE, exc, "untried", "")

\* The mutant of gridmet_except that caches a default summary when the
\* fallback provider fails too.
gridmet_except_default(c, t, cache_key, exc, o, lat, lon, hours) ==
    LET fb == fetch_openmeteo_summary(o, lat, lon, hours)
        fallback == WithSource(IF fb.raised # "" THEN
                                   [temperature_c |-> 2500, humidity_pct |-> 3500,
                                    wind_speed_kmh |-> 1500,
                                    wind_direction_deg |-> 180000]
                               ELSE fb.ret, "openmeteo_fallback")
    IN  Outcome(fallback, "", save_cache(c, t, cache_key, fallback), <<cache_key>>,
                FALSE, exc, IF fb.raised # "" THEN fb.raised ELSE "ok", "openmeteo")

\* The mutant of gridmet_except that returns the fallback without storing it.
gridmet_except_unsaved(c, t, cache_key, exc, o, lat, lon, hours) ==
    LET fb == fetch_openmeteo_summary(o, lat, lon, hours)
    IN  IF fb.raised # ""
        THEN Outcome(None, fb.raised, c, <<>>, FALSE, exc, fb.raised, "")
        ELSE Outcome(WithSource(fb.ret, "openmeteo_fallback"), "", c, <<>>, FALSE,
                     exc, "ok", "openmeteo")

\* The "except Exception" clause of the gridmet branch, entered with the
\* exception exc of the gridded path.
gridmet_except(c, t, cache_key, exc, o, lat, lon, hours) ==
    LET fb == fetch_openmeteo_summary(o, lat, lon, hours)
    IN  IF fb.raised # ""
        THEN Outcome(None, fb.raised, c, <<>>, FALSE, exc, fb.raised, "")
        ELSE LET fallback == WithSource(fb.ret, "openmeteo_fallback")
             IN  Outcome(fallback, "", save_cache(c, t, cache_key, fallback),
                         <<cache_key>>, FALSE, exc, "ok", "openmeteo")

UNSUPPORTED == "ValueError: Unsupported weather source"

\* The mutant of unsupported_source that answers with the point-forecast
\* provider instead of raising.
unsupported_source_openmeteo(c, t, cache_key, o, lat, lon, hours) ==
    LET fb == fetch_openmeteo_summary(o, lat, lon, hours)
    IN  IF fb.raised # ""
        THEN Outcome(None, fb.raised, c, <<>>, FALSE, "untried", fb.raised, "")
        ELSE LET summary == WithSource(fb.ret, "openmeteo")
             IN  Outcome(summary, "", save_cache(c, t, cache_key, summary),
                         <<cache_key>>, FALSE, "untried", "ok", "openmeteo")

\* The last statement: raise ValueError(f"Unsupported weather source: ...").
unsupported_source(c, t, cache_key, o, lat, lon, hours) ==
    Outcome(None, UNSUPPORTED, c, <<>>, FALSE, "untried", "untried", "")

\* fetch_weather_summary(lat, lon, hours, source) on cache directory c at
\* time t, the gridded archive being in state g and the forecast endpoint
\* answering o.
fetch_weather_summary(c, t, lat, lon, hours, source, g, o) ==
    LET normalized_source == Lower(Strip(source))
        cache_key == weather_cache_key(lat, lon, hours, normalized_source)
        cached == load_cache(c, t, cache_key, CACHE_TTL_SECONDS)
    IN  IF cached # None
        THEN Outcome(cached, "", c, <<>>, TRUE, "untried", "untried", "")
        ELSE IF normalized_source = GRIDMET
        THEN LET gs == fetch_gridmet_summary(g, lat, lon, hours)
             IN  IF gs.raised = ""
                 THEN Outcome(gs.ret, "", save_cache(c, t, cache_key, gs.ret),
                              <<cache_key>>, FALSE, "ok", "untried", "gridmet")
                 ELSE gridmet_except(c, t, cache_key, gs.raised, o, lat, lon, hours)
        ELSE IF normalized_source = OPENMETEO
        THEN LET fs == fetch_openmeteo_summary(o, lat, lon, hours)
             IN  IF fs.raised # ""
                 THEN Outcome(None, fs.raised, c, <<>>, FALSE, "untried", fs.raised, "")
                 ELSE LET summary == WithSource(fs.ret, "openmeteo")
                      IN  Outcome(summary, "", save_cache(c, t, cache_key, summary),
                                  <<cache_key>>, FALSE, "untried", "ok", "openmeteo")
        ELSE unsupported_source(c, t, cache_key, o, lat, lon, hours)

----------------------------------------------------------------------------
(* The upstream providers: what a call may meet.                           *)

VarSet == {GRIDMET_VARS[i] : i \in 1..Len(GRIDMET_VARS)}

\* A dataset that opens and reads: its variable, coordinates and the series
\* of the nearest grid cell.
MkDs(var, coords, series) ==
    [open |-> "ok", vars |-> {var}, coords |-> coords, read |-> "ok", series |-> series]

\* Three daily samples per variable: m/s, degrees, Kelvin, Kelvin, %, %.
BaseSeries ==
    [vs |-> <<300, 500, 400>>, th |-> <<90000, 350000, 10000>>,
     tmmn |-> <<28315, 28515, 28715>>, tmmx |-> <<30315, 30515, 30715>>,
     rmin |-> <<2000, 2200, 2400>>, rmax |-> <<6000, 6200, 6400>>]

BaseDs == [v \in VarSet |-> MkDs(v, {"lat", "lon", "day"}, Nums(BaseSeries[v]))]

GridOk == [name |-> "ok", xarray |-> TRUE, ds |-> BaseDs]

\* THREDDS is unreachable: xr.open_dataset raises.
GridDown ==
    [name |-> "down", xarray |-> TRUE,
     ds |-> [v \in VarSet |-> [BaseDs[v] EXCEPT !.open = "OSError"]]]

\* xarray is not installed.
GridNoXarray == [name |-> "noxarray", xarray |-> FALSE, ds |-> BaseDs]

\* The wind-speed dataset carries its variable under another name.
GridNoVar ==
    [name |-> "novar", xarray |-> TRUE,
     ds |-> [BaseDs EXCEPT !["vs"].vars = {"wind_speed"}]]

\* No dataset has a "day" or "time" coordinate.
GridNoTime ==
    [name |-> "notime", xarray |-> TRUE,
     ds |-> [v \in VarSet |-> [BaseDs[v] EXCEPT !.coords = {"lat", "lon"}]]]

\* The remote read of one array fails.
GridReadFail ==
    [name |-> "readfail", xarray |-> TRUE,
     ds |-> [BaseDs EXCEPT !["tmmx"].read = "RuntimeError"]]

\* Wind direction is all NaN, temperatures are in Celsius, the time
\* coordinate is called "time".
GridNaN ==
    [name |-> "nan", xarray |-> TRUE,
     ds |-> [v \in VarSet |->
                MkDs(v, {"lat", "lon", "time"},
                     IF v = "th" THEN <<NaN, NaN, NaN>>
                     ELSE IF v = "tmmn" THEN Nums(<<900, 1100, 1300>>)
                     ELSE IF v = "tmmx" THEN Nums(<<2900, 3100, 3300>>)
                     ELSE Nums(BaseSeries[v]))]]

GridWorlds == {GridOk, GridDown, GridNoXarray, GridNoVar, GridNoTime, GridReadFail, GridNaN}

BaseHourly ==
    [temperature_2m |-> Nums(<<2000, 2200, 2600>>),
     relative_humidity_2m |-> Nums(<<3000, 4000, 5000>>),
     wind_speed_10m |-> Nums(<<1000, 2000, 3300>>),
     wind_direction_10m |-> Nums(<<350000, 10000, 90000>>)]

OmOk == [name |-> "ok", status |-> "ok", hourly |-> BaseHourly]

OmDown == [name |-> "down", status |-> "ConnectionError", hourly |-> BaseHourly]

OmHttp == [name |-> "http", status |-> "HTTPError", hourly |-> BaseHourly]

\* The response has no "hourly" object.
OmEmpty == [name |-> "empty", status |-> "ok", hourly |-> [k \in {} |-> <<>>]]

\* No temperature array, the other arrays present.
OmNoTemp ==
    [name |-> "notemp", status |-> "ok",
     hourly |-> [relative_humidity_2m |-> Nums(<<4000, 5000>>),
                 wind_speed_10m |-> Nums(<<1200>>),
                 wind_direction_10m |-> Nums(<<90000, 270000>>)]]

\* Opposing wind directions.
OmCancel ==
    [name |-> "cancel", status |-> "ok",
     hourly |-> [BaseHourly EXCEPT !.wind_direction_10m = Nums(<<0, 180000, 90000>>)]]

\* A null among the samples.
OmNull ==
    [name |-> "null", status |-> "ok",
     hourly |-> [BaseHourly EXCEPT !.temperature_2m = <<Num(2000), Null, Num(2600)>>]]

OmWorlds == {OmOk, OmDown, OmHttp, OmEmpty, OmNoTemp, OmCancel, OmNull}

\* The upstream states the calls of fetch_weather_summary meet.
CallGridWorlds == {GridOk, GridDown, GridNoVar, GridNoTime}

CallOmWorlds == {OmOk, OmDown, OmEmpty}

GridWorld(name) == CHOOSE g \in GridWorlds : g.name = name

OmWorld(name) == CHOOSE o \in OmWorlds : o.name = name

----------------------------------------------------------------------------
(* State.                                                                  *)

VARIABLES
    cache,    \* the cache directory: name -> {timestamp, data}
    origin,   \* history: name -> how the cached data came about
    now,      \* time.time(), seconds
    last,     \* the last call of fetch_weather_summary and its outcome
    probe     \* the last application of a pure function and its result

vars == <<cache, origin, now, last, probe>>

\* The clock advances by whole TTLs, MaxClock of them.
MaxClock == 2

Sources ==
    { GRIDMET,
      <<" ", "G", "r", "i", "d", "M", "E", "T", "\n">>,
      OPENMETEO,
      <<"n", "o", "a", "a">> }

\* The queries of the calls: (lat, lon, hours).
Queries == { [lat |-> 398004, lon |-> -1216000, hours |-> 30] }

EmptyDir == [n \in {} |-> None]

NoCall == [op |-> "none"]

Init ==
    /\ cache = EmptyDir
    /\ origin = EmptyDir
    /\ now = 0
    /\ last = NoCall
    /\ probe = NoCall

\* One call fetch_weather_summary(q.lat, q.lon, q.hours, source) meeting
\* the upstream states g and o.
FetchWeatherSummary(q, source, g, o) ==
    \E r \in {fetch_weather_summary(cache, now, q.lat, q.lon, q.hours, source, g, o)} :
      \E made \in {[producer |-> r.producer, requested |-> Lower(Strip(source)),
                    grid |-> r.grid]} :
        /\ cache' = r.cache
        /\ origin' = IF r.saved = <<>> THEN origin
                     ELSE [n \in DOMAIN origin \cup {r.saved[1]} |->
                              IF n = r.saved[1] THEN made ELSE origin[n]]
        /\ last' = [op |-> "fetch_weather_summary", source |-> source, q |-> q,
                    ret |-> r.ret, raised |-> r.raised, saved |-> r.saved,
                    hit |-> r.hit, grid |-> r.grid, om |-> r.om,
                    g |-> IF r.grid = "untried" THEN "" ELSE g.name,
                    o |-> IF r.om = "untried" THEN "" ELSE o.name,
                    by |-> IF r.raised # "" THEN None
                           ELSE IF r.hit
                           THEN origin[weather_cache_key(q.lat, q.lon, q.hours,
                                                         Lower(Strip(source)))]
                           ELSE made]
        /\ UNCHANGED <<now, probe>>

\* Time passes.
Tick ==
    /\ now < MaxClock * CACHE_TTL_SECONDS
    /\ now' = now + CACHE_TTL_SECONDS
    /\ UNCHANGED <<cache, origin, last, probe>>

NextWeather ==
    \/ \E q \in Queries, source \in Sources, g \in CallGridWorlds, o \in CallOmWorlds :
           FetchWeatherSummary(q, source, g, o)
    \/ Tick

SpecWeather == Init /\ [][NextWeather]_vars

----------------------------------------------------------------------------
(* The providers and the circular mean as pure functions of what the       *)
(* upstream returns: sample arrays of up to MaxSamples entries.            *)

MaxSamples == 2

Angles == {0, 10000, 90000, 180000, 270000, 350000}

SeqsUpTo(S, n) == UNION {[1..k -> S] : k \in 0..n}

AngleSeqs == SeqsUpTo(Angles, MaxSamples)

\* The first 0..MaxSamples entries of a base array.
Prefixes(base) == {SubSeq(base, 1, k) : k \in 0..Min2(MaxSamples, Len(base))}

ProbeHours == {0, 1, 30}

\* Hourly arrays: all samples lie above the missing-data defaults.
ProbeOmWorlds ==
    { [name |-> "probe", status |-> "ok",
       hourly |-> [temperature_2m |-> Nums(t),
                   relative_humidity_2m |-> Nums(SubSeq(<<4000, 5000, 4400, 4800>>, 1, k)),
                   wind_speed_10m |-> Nums(SubSeq(<<2000, 3300, 2500, 1800>>, 1, k)),
                   wind_direction_10m |-> Nums(d)]] :
        t \in Prefixes(<<2600, 3000, 2800, 3200>>),
        k \in 0..MaxSamples,
        d \in AngleSeqs }
    \cup OmWorlds

\* The minimum temperature is all NaN, the maximum is there.
GridNoTmmn ==
    [name |-> "notmmn", xarray |-> TRUE,
     ds |-> [BaseDs EXCEPT !["tmmn"].series = <<NaN, NaN, NaN>>]]

\* Daily arrays: wind speed in m/s, temperatures in Kelvin, humidity in %.
ProbeGridWorlds ==
    { [name |-> "probe", xarray |-> TRUE,
       ds |-> [vs |-> MkDs("vs", {"lat", "lon", "day"},
                           Nums(SubSeq(<<500, 600, 700, 800>>, 1, k))),
               th |-> MkDs("th", {"lat", "lon", "day"}, Nums(d)),
               tmmn |-> MkDs("tmmn", {"lat", "lon", "day"},
                             Nums(SubSeq(<<30015, 30115, 30215, 30315>>, 1, kt))),
               tmmx |-> MkDs("tmmx", {"lat", "lon", "day"},
                             Nums(SubSeq(<<31015, 31115, 31215, 31315>>, 1, kt))),
               rmin |-> MkDs("rmin", {"lat", "lon", "day"},
                             Nums(SubSeq(<<4000, 4200, 4400, 4600>>, 1, k))),
               rmax |-> MkDs("rmax", {"lat", "lon", "day"},
                             Nums(SubSeq(<<6000, 6200, 6400, 6600>>, 1, k)))]] :
        d \in AngleSeqs, kt \in 0..MaxSamples, k \in 0..MaxSamples }
    \cup GridWorlds \cup {GridNoTmmn}

\* Each application starts from the initial state.
ApplyOpenMeteo ==
    /\ probe = NoCall
    /\ \E o \in ProbeOmWorlds, hours \in ProbeHours :
           probe' = [op |-> "fetch_openmeteo_summary", hours |-> hours, o |-> o,
                     out |-> fetch_openmeteo_summary(o, 398004, -1216000, hours)]
    /\ UNCHANGED <<cache, origin, now, last>>

ApplyGridmet ==
    /\ probe = NoCall
    /\ \E g \in ProbeGridWorlds, hours \in {1, 30} :
           probe' = [op |-> "fetch_gridmet_summary", hours |-> hours, g |-> g,
                     out |-> fetch_gridmet_summary(g, 398004, -1216000, hours)]
    /\ UNCHANGED <<cache, origin, now, last>>

ApplyCircularMean ==
    /\ probe = NoCall
    /\ \E vals \in AngleSeqs :
           probe' = [op |-> "circular_mean_deg", vals |-> vals,
                     out |-> circular_mean_deg(vals)]
    /\ UNCHANGED <<cache, origin, now, last>>

NextProviders == ApplyOpenMeteo \/ ApplyGridmet \/ ApplyCircularMean

SpecProviders == Init /\ [][NextProviders]_vars

----------------------------------------------------------------------------
(* Properties of fetch_weather_summary, under SpecWeather.                 *)

IsFetch == last.op = "fetch_weather_summary"

Normalized == Lower(Strip(last.source))

Answered(x) == x \in {"untried", "ok"}

\* C1: for source 'gridmet', whatever the cache holds and however the
\* gridded provider fails, a call in which the point-forecast provider does
\* not fail returns a summary tagged 'gridmet' or 'openmeteo_fallback'; no
\* exception reaches the caller.
C1_GridFailureAbsorbed ==
    (IsFetch /\ Normalized = GRIDMET /\ Answered(last.om))
        => /\ last.raised = ""
           /\ last.ret # None
           /\ last.ret.weather_source \in {"gridmet", "openmeteo_fallback"}

\* A call, after time has passed, whose gridded provider raised and that
\* returned the fallback.
C1_Witness ==
    /\ IsFetch /\ Normalized = GRIDMET /\ ~last.hit
    /\ ~Answered(last.grid) /\ last.om = "ok"
    /\ last.raised = "" /\ last.ret.weather_source = "openmeteo_fallback"
    /\ now > 0

\* A gridded dataset that is open but lacks its variable or a time coordinate.
MissingVarOrTime(g) ==
    /\ g.xarray
    /\ \A v \in VarSet : g.ds[v].open = "ok"
    /\ \E v \in VarSet :
           \/ v \notin g.ds[v].vars
           \/ ("day" \notin g.ds[v].coords /\ "time" \notin g.ds[v].coords)

\* C2: when the gridded provider is contacted and a requested variable is
\* missing from its dataset, or the dataset has no 'day'/'time' coordinate,
\* a summary that is returned is the point-forecast provider's, tagged as a
\* fallback, not one tagged 'gridmet'.
C2_MissingDataFallsBack ==
    (IsFetch /\ Normalized = GRIDMET /\ last.g # "" /\ MissingVarOrTime(GridWorld(last.g))
       /\ last.raised = "")
        => last.ret.weather_source = "openmeteo_fallback"

\* C3: when the point-forecast provider fails, directly requested or as the
\* fallback, its exception reaches the caller, nothing is returned and
\* nothing is saved to the cache.
C3_OpenMeteoFailurePropagates ==
    (IsFetch /\ ~Answered(last.om))
        => /\ last.raised = last.om
           /\ last.raised = OmWorld(last.o).status
           /\ last.ret = None
           /\ last.saved = <<>>
           /\ load_cache(cache, now, weather_cache_key(last.q.lat, last.q.lon,
                                                       last.q.hours, Normalized),
                         CACHE_TTL_SECONDS) = None

\* The fallback fails after the gridded provider failed.
C3_Witness ==
    /\ IsFetch /\ Normalized = GRIDMET
    /\ ~Answered(last.grid) /\ last.om = "ConnectionError"
    /\ last.raised = "ConnectionError"

\* C4: a source that is neither 'gridmet' nor 'openmeteo' after trimming and
\* lower-casing fails with the unsupported-source error in every cache
\* state: no summary, cached or default, no provider contacted, nothing saved.
C4_UnsupportedSourceRaises ==
    (IsFetch /\ Normalized \notin {GRIDMET, OPENMETEO})
        => /\ last.raised = UNSUPPORTED
           /\ last.ret = None
           /\ ~last.hit
           /\ last.grid = "untried" /\ last.om = "untried"
           /\ last.saved = <<>>

\* An unsupported source asked while the cache holds fresh entries of the
\* same point and horizon for both supported sources.
C4_Witness ==
    /\ IsFetch /\ Normalized \notin {GRIDMET, OPENMETEO}
    /\ last.raised = UNSUPPORTED
    /\ \A src \in {GRIDMET, OPENMETEO} :
           load_cache(cache, now,
                      weather_cache_key(last.q.lat, last.q.lon, last.q.hours, src),
                      CACHE_TTL_SECONDS) # None

\* C5: the tag of every returned summary, fresh or cached, names the
\* provider that produced it: 'gridmet' only for a summary the gridded
\* provider returned, 'openmeteo' only for one of the point-forecast provider
\* under a direct request, 'openmeteo_fallback' only for one of the
\* point-forecast provider under a 'gridmet' request whose gridded provider
\* had failed.
C5_TagNamesProducer ==
    (IsFetch /\ last.raised = "")
        => LET tag == last.ret.weather_source
           IN  /\ tag \in {"gridmet", "openmeteo", "openmeteo_fallback"}
               /\ tag = "gridmet" =>
                      /\ last.by.producer = "gridmet"
                      /\ Normalized = GRIDMET
               /\ tag = "openmeteo" =>
                      /\ last.by.producer = "openmeteo"
                      /\ last.by.requested = OPENMETEO
                      /\ Normalized = OPENMETEO
               /\ tag = "openmeteo_fallback" =>
                      /\ last.by.producer = "openmeteo"
                      /\ last.by.requested = GRIDMET
                      /\ ~Answered(last.by.grid)
                      /\ Normalized = GRIDMET

\* A fallback summary served from the cache.
C5_Witness ==
    /\ IsFetch /\ last.hit /\ last.raised = ""
    /\ last.ret.weather_source = "openmeteo_fallback"

----------------------------------------------------------------------------
(* Properties of the providers and of the circular mean, under             *)
(* SpecProviders.                                                          *)

IsSummary ==
    /\ probe.op \in {"fetch_openmeteo_summary", "fetch_gridmet_summary"}
    /\ probe.out.raised = ""

\* C6: every summary either provider returns, whatever the direction
\* samples, has wind_direction_deg in [0, 360).
C6_DirectionNormalized ==
    IsSummary => /\ probe.out.ret.wind_direction_deg >= 0
                 /\ probe.out.ret.wind_direction_deg < 360000

\* A summary whose mean direction lies west of north: atan2 was negative.
C6_Witness ==
    /\ IsSummary
    /\ probe.out.ret.wind_direction_deg > 180000
    /\ probe.out.ret.wind_direction_deg < 360000

\* The samples the provider returned for each field of the summary.
FieldSamples ==
    IF probe.op = "fetch_openmeteo_summary"
    THEN [temperature_c |-> HourlyGet(probe.o.hourly, "temperature_2m"),
          humidity_pct |-> HourlyGet(probe.o.hourly, "relative_humidity_2m"),
          wind_speed_kmh |-> HourlyGet(probe.o.hourly, "wind_speed_10m"),
          wind_direction_deg |-> HourlyGet(probe.o.hourly, "wind_direction_10m")]
    ELSE LET vals(v) == NotNan(probe.g.ds[v].series)
         IN  [temperature_c |-> vals("tmmn") \o vals("tmmx"),
              humidity_pct |-> vals("rmin") \o vals("rmax"),
              wind_speed_kmh |-> vals("vs"),
              wind_direction_deg |-> vals("th")]

\* The missing-data defaults of the specification: 25 C, 35 %, 15 km/h, 180.
SpecDefaults ==
    [temperature_c |-> 2500, humidity_pct |-> 3500, wind_speed_kmh |-> 1500,
     wind_direction_deg |-> 180000]

\* The defaults the gridded provider uses: 4.2 m/s is 15.12 km/h.
GridmetDefaults == [SpecDefaults EXCEPT !.wind_speed_kmh = 1512]

\* A field of the summary is the given default when the provider returned
\* no sample for it, and differs from it when it returned samples (the
\* samples of the probes lie above the defaults; a mean direction of 180 is
\* what opposing samples give).
DefaultsExactlyWhenEmpty(defaults) ==
    \A f \in DOMAIN SpecDefaults :
        /\ FieldSamples[f] = <<>> => probe.out.ret[f] = defaults[f]
        /\ (FieldSamples[f] # <<>> /\ f # "wind_direction_deg")
               => probe.out.ret[f] > defaults[f]

\* A gridded dataset that opens and reads, with all variables and a time
\* coordinate, and samples that are numbers.
ProbeWellFormed ==
    /\ IsSummary
    /\ probe.op = "fetch_gridmet_summary" => ~MissingVarOrTime(probe.g)
    /\ probe.op = "fetch_openmeteo_summary" => probe.o.name = "probe"
    /\ probe.op = "fetch_gridmet_summary" => probe.g.name = "probe"

\* C7: for both providers a field takes its missing-data default exactly
\* when the provider returned no sample for it, the defaults being 25 C,
\* 35 %, 15 km/h and 180 degrees.
C7_DefaultsOnlyWhenEmpty ==
    ProbeWellFormed => DefaultsExactlyWhenEmpty(SpecDefaults)

\* What holds instead: the point-forecast provider uses the defaults of the
\* specification, the gridded provider uses 15.12 km/h for the wind speed.
C7_DefaultsAsCoded ==
    ProbeWellFormed =>
        DefaultsExactlyWhenEmpty(IF probe.op = "fetch_gridmet_summary"
                                 THEN GridmetDefaults ELSE SpecDefaults)

\* C8: the circular mean of a non-empty set of angles is the direction of
\* the sum of their unit vectors, in [0, 360): the sum has no component
\* across that direction and a positive one along it; it is 180 when the
\* sine sum and the cosine sum both cancel; and [10, 350] gives 0, not 180.
C8_CircularMean ==
    (probe.op = "circular_mean_deg" /\ probe.vals # <<>>)
        => LET s == SinSum(probe.vals)
               c == CosSum(probe.vals)
               m == probe.out
           IN  /\ (s = 0 /\ c = 0) => m = 180000
               /\ ~(s = 0 /\ c = 0) =>
                      /\ m >= 0 /\ m < 360000
                      /\ Abs(MulFix(s, CosDeg(m)) - MulFix(c, SinDeg(m)))
                            <= 25 * Len(probe.vals) + 10
                      /\ MulFix(c, CosDeg(m)) + MulFix(s, SinDeg(m)) > 0
               /\ probe.vals = <<10000, 350000>> => (m <= 1 \/ m >= 359999)
               /\ probe.vals = <<0, 180000>> => m = 180000

\* The mean of [10, 350] was taken.
C8_Witness ==
    /\ probe.op = "circular_mean_deg"
    /\ probe.vals = <<10000, 350000>>
    /\ probe.out = 0

----------------------------------------------------------------------------
(* backend/features/geo.py.  Coordinates of assets and fires are in 10^-6  *)
(* degrees.  haversine_km and bearing_deg are tabulated on the places the  *)
(* model uses: the entries are the values the source computes, to the      *)
(* millimetre and to the millidegree.                                      *)

Places ==
    <<[lat |-> 39800000, lon |-> -121600000],
      [lat |-> 39810000, lon |-> -121590000],
      [lat |-> 39807779, lon |-> -121600000],
      [lat |-> 39850000, lon |-> -121550000],
      [lat |-> 46200000, lon |-> -121600000],
      [lat |-> 39810000, lon |-> -121610000]>>

PlaceIndex(lat, lon) ==
    CHOOSE i \in 1..Len(Places) : Places[i] = [lat |-> lat, lon |-> lon]

\* haversine_km(Places[i], Places[j]) in mm.  Two entries of a row are equal
\* exactly when the source computes equal distances.
HaversineMm ==
    <<<<0, 1402191, 864985, 7010199, 711647531, 1402191>>,
      <<1402191, 0, 889167, 5608008, 710536045, 1708336>>,
      <<864985, 889167, 0, 6345930, 710782545, 889167>>,
      <<7010199, 5608008, 6345930, 0, 706099439, 6784786>>,
      <<711647531, 710536045, 710782545, 706099439, 0, 710536045>>,
      <<1402191, 1708336, 889167, 6784786, 710536045, 0>>>>

\* bearing_deg(Places[i], Places[j]) in mdeg.
BearingMdeg ==
    <<<<0, 37529, 0, 37508, 0, 322471>>,
      <<217536, 0, 253877, 37510, 359938, 270006>>,
      <<180000, 73871, 0, 42269, 0, 286129>>,
      <<217540, 217535, 222301, 0, 359687, 229058>>,
      <<180000, 179931, 180000, 179653, 0, 180069>>,
      <<142464, 89994, 106123, 49019, 62, 0>>>>

haversine_km(lat1, lon1, lat2, lon2) ==
    HaversineMm[PlaceIndex(lat1, lon1)][PlaceIndex(lat2, lon2)]

bearing_deg(lat1, lon1, lat2, lon2) ==
    BearingMdeg[PlaceIndex(lat1, lon1)][PlaceIndex(lat2, lon2)]

\* wind_alignment_cos(fire_to_asset_bearing_deg, wind_to_bearing_deg), micro.
wind_alignment_cos(fire_to_asset_bearing_deg, wind_to_bearing_deg) ==
    CosDeg(fire_to_asset_bearing_deg - wind_to_bearing_deg)

\* The mutant of nearer that lets a point at the same distance replace best.
nearer_or_equal(d, best) == best = None \/ d <= best.dist

\* "if best is None or d < best[0]"
nearer(d, best) == best = None \/ d < best.dist

\* The loop of nearest_point over the remaining points, best being the
\* nearest so far: a point replaces it only when strictly nearer.
RECURSIVE nearest_from(_, _, _, _)
nearest_from(lat, lon, points, best) ==
    IF points = <<>> THEN best
    ELSE LET p == Head(points)
             d == haversine_km(lat, lon, p.lat, p.lon)
         IN  nearest_from(lat, lon, Tail(points),
                          IF nearer(d, best)
                          THEN [dist |-> d, lat |-> p.lat, lon |-> p.lon]
                          ELSE best)

\* nearest_point(lat, lon, points): (distance, lat, lon) of the nearest
\* point, None when there is no point.
nearest_point(lat, lon, points) == nearest_from(lat, lon, points, None)

----------------------------------------------------------------------------
(* backend/model/risk_model.py.  Weather values are centi values, as in    *)
(* the summaries; the linear score and the risk are micro values.          *)

RiskConfig ==
    [alpha_dist |-> 1100000, alpha_wind |-> 80000, alpha_humidity |-> 30000,
     base_bias |-> -1200000]

\* round(a*b/c) for a, b >= 0 and c > 0, halves to the even neighbour.
RoundQR(qr, c) ==
    IF 2 * qr[2] < c THEN qr[1]
    ELSE IF 2 * qr[2] > c THEN qr[1] + 1
    ELSE IF qr[1] % 2 = 0 THEN qr[1] ELSE qr[1] + 1

\* The arguments are evaluated once, before the long multiplication.
MulDivRound(a, b, c) ==
    CHOOSE q \in {RoundQR(MulDivQR(x, y, z), z) : x \in {a}, y \in {b}, z \in {c}} : TRUE

\* exp(-n) for n = 0..20 and exp(-k/8) for k = 0..7, micro.
ExpWhole ==
    <<1000000, 367879, 135335, 49787, 18316, 6738, 2479, 912, 335, 123, 45,
      17, 6, 2, 1, 0, 0, 0, 0, 0, 0>>

ExpEighths ==
    <<1000000, 882497, 778801, 687289, 606531, 535261, 472367, 416862>>

\* exp(-f) for 0 <= f < 1/8 by its Taylor series in Horner form, from term k on.
RECURSIVE ExpSeries(_, _)
ExpSeries(f, k) ==
    IF k > 6 THEN Scale ELSE Scale - DivRound(MulFixNat(f, ExpSeries(f, k + 1)), k)

\* math.exp(-y) for y >= 0, micro in and out; below 10^-6 from y = 14 on.
\* exp(-y) = exp(-n) * exp(-k/8) * exp(-f) for y = n + k/8 + f.
ExpNeg(y) ==
    IF y > 20 * Scale THEN 0
    ELSE MulFixNat(MulFixNat(ExpWhole[(y \div Scale) + 1],
                             ExpEighths[((y % Scale) \div 125000) + 1]),
                   ExpSeries(y % 125000, 1))

\* 1/(1 + 1/u) = u/(1 + u) for u = exp(x) <= 1, and 1/(1 + u) for u = exp(-x) <= 1.
Logistic(u, negative) ==
    IF negative THEN MulDivRound(u, Scale, Scale + u)
    ELSE MulDivRound(Scale, Scale, Scale + u)

\* sigmoid(x): math.exp(-x) raises OverflowError above 709.782712893384.
sigmoid(x) ==
    IF -x > 709782712 THEN Raise("OverflowError")
    ELSE Ok(Logistic(ExpNeg(Abs(x)), x < 0))

\* _bucket(score)
bucket(score) ==
    IF score >= 750000 THEN "high"
    ELSE IF score >= 400000 THEN "medium"
    ELSE "low"

\* weather.get(key) and weather.get(key, default)
WeatherGet(weather, key, default) ==
    IF key \in DOMAIN weather THEN weather[key] ELSE default

\* A value of the "features" object: a number or null.
Echo(weather, key) == IF key \in DOMAIN weather THEN Num(weather[key]) ELSE None

\* The mutant of no_fires that treats an empty fire list as an error.
no_fires_error(asset, weather) == Raise("ValueError")

\* The branch "if not fires".
no_fires(asset, weather) ==
    Ok([asset_id |-> asset.id,
        risk_score |-> 0,
        risk_bucket |-> "low",
        features |-> [min_dist_to_fire_km |-> None,
                      wind_alignment |-> None,
                      effective_dist |-> None,
                      wind_speed_kmh |-> Echo(weather, "wind_speed_kmh"),
                      humidity_pct |-> Echo(weather, "humidity_pct")]])

\* dist_km / max(0.2, wind_speed * max(0.0, alignment) + 0.3), rounded to
\* thousandths of a km.
effective_dist(dist_km, alignment, wind_speed) ==
    MulDivRound(dist_km, 1000,
                Max2(200000, MulFix(wind_speed * 10000, Max2(0, alignment)) + 300000))

\* The mutant of linear in which distance raises the score.
linear_dist_added(cfg, dist_km, alignment, wind_speed, humidity) ==
    cfg.base_bias
      + MulFix(cfg.alpha_dist, dist_km - 5 * Scale)
      + MulFix(MulFix(cfg.alpha_wind, wind_speed * 10000), alignment)
      - MulFix(cfg.alpha_humidity, humidity * 10000)

\* The mutant of linear in which wind counts by the size of its alignment.
linear_wind_unsigned(cfg, dist_km, alignment, wind_speed, humidity) ==
    cfg.base_bias
      + MulFix(cfg.alpha_dist, 5 * Scale - dist_km)
      + MulFix(MulFix(cfg.alpha_wind, wind_speed * 10000), Abs(alignment))
      - MulFix(cfg.alpha_humidity, humidity * 10000)

\* The linear score.
linear(cfg, dist_km, alignment, wind_speed, humidity) ==
    cfg.base_bias
      + MulFix(cfg.alpha_dist, 5 * Scale - dist_km)
      + MulFix(MulFix(cfg.alpha_wind, wind_speed * 10000), alignment)
      - MulFix(cfg.alpha_humidity, humidity * 10000)

\* The returned dictionary for the risk s = sigmoid(linear), or its exception.
\* risk_score is in units of 10^-4, distances in thousandths of a km, the
\* alignment in thousandths.
assessment(asset, s, dist_km, alignment, wind_speed, humidity) ==
    IF s.raised # "" THEN Raise(s.raised)
    ELSE Ok([asset_id |-> asset.id,
             risk_score |-> DivRound(s.ret, 100),
             risk_bucket |-> bucket(s.ret),
             features |-> [min_dist_to_fire_km |-> Num(DivRound(dist_km, 1000)),
                           wind_alignment |-> Num(DivRound(alignment, 1000)),
                           effective_dist |->
                               Num(effective_dist(dist_km, alignment, wind_speed)),
                           wind_speed_kmh |-> Num(wind_speed),
                           humidity_pct |-> Num(humidity)]])

\* Lines 60 to 81: the score of an asset at dist_km of its nearest fire.
scored(asset, dist_km, alignment, wind_speed, humidity) ==
    assessment(asset,
               sigmoid(linear(RiskConfig, dist_km, alignment, wind_speed, humidity)),
               dist_km, alignment, wind_speed, humidity)

\* Lines 45 to 58: after nearest_point.
with_nearest(asset, weather, nearest) ==
    IF nearest = None
    THEN Ok([asset_id |-> asset.id, risk_score |-> 0, risk_bucket |-> "low",
             features |-> [k \in {} |-> None]])
    ELSE scored(asset, nearest.dist,
                wind_alignment_cos(
                    bearing_deg(nearest.lat, nearest.lon, asset.lat, asset.lon),
                    WeatherGet(weather, "wind_direction_deg", 180000)),
                WeatherGet(weather, "wind_speed_kmh", 1500),
                WeatherGet(weather, "humidity_pct", 3500))

\* compute_asset_risk(asset, fires, weather) with the default RiskConfig.
compute_asset_risk(asset, fires, weather) ==
    IF fires = <<>> THEN no_fires(asset, weather)
    ELSE with_nearest(asset, weather, nearest_point(asset.lat, asset.lon, fires))

----------------------------------------------------------------------------
(* The scorer as a function of its arguments: assets and fires at the      *)
(* places, fire lists of up to MaxFires detections.                        *)

MaxFires == 2

Assets ==
    { [id |-> "substation-1", lat |-> Places[2].lat, lon |-> Places[2].lon],
      [id |-> "hospital-1", lat |-> Places[3].lat, lon |-> Places[3].lon],
      [id |-> "road-1", lat |-> Places[1].lat, lon |-> Places[1].lon] }

FirePlaces == {Places[1], Places[4], Places[5]}

FireLists == SeqsUpTo(FirePlaces, MaxFires)

\* Summaries, and dictionaries that lack some or all of the keys.
Weathers ==
    { [wind_speed_kmh |-> w, wind_direction_deg |-> d, humidity_pct |-> h] :
        w \in {0, 1500, 4000}, d \in {0, 45000, 180000}, h \in {2000, 3500, 9000} }
    \cup { [k \in {} |-> 0], [wind_speed_kmh |-> 2500], [humidity_pct |-> 1000] }

ComputeAssetRisk ==
    /\ probe = NoCall
    /\ \E asset \in Assets, fires \in FireLists, weather \in Weathers :
           probe' = [op |-> "compute_asset_risk", asset |-> asset, fires |-> fires,
                     weather |-> weather,
                     out |-> compute_asset_risk(asset, fires, weather)]
    /\ UNCHANGED <<cache, origin, now, last>>

NextRisk == ComputeAssetRisk

SpecRisk == Init /\ [][NextRisk]_vars

----------------------------------------------------------------------------
(* Properties of the scorer, under SpecRisk.                               *)

IsRisk == probe.op = "compute_asset_risk"

\* C9: with an empty fire list, for every asset and every weather summary,
\* compute_asset_risk returns normally risk_score 0.0 and risk_bucket 'low',
\* with null distance, wind-alignment and effective-distance features.
C9_NoFiresZeroRisk ==
    (IsRisk /\ probe.fires = <<>>)
        => /\ probe.out.raised = ""
           /\ probe.out.ret.asset_id = probe.asset.id
           /\ probe.out.ret.risk_score = 0
           /\ probe.out.ret.risk_bucket = "low"
           /\ probe.out.ret.features.min_dist_to_fire_km = None
           /\ probe.out.ret.features.wind_alignment = None
           /\ probe.out.ret.features.effective_dist = None

\* No fires, for a summary of strong wind and dry air.
C9_Witness ==
    /\ IsRisk /\ probe.fires = <<>>
    /\ probe.weather = [wind_speed_kmh |-> 4000, wind_direction_deg |-> 0,
                        humidity_pct |-> 2000]
    /\ probe.out.raised = "" /\ probe.out.ret.risk_score = 0

\* C10: in every returned assessment the bucket agrees with the reported
\* score: 'high' exactly when risk_score >= 0.75, 'medium' exactly when
\* 0.4 <= risk_score < 0.75, 'low' exactly when risk_score < 0.4.
C10_BucketAgreesWithScore ==
    (IsRisk /\ probe.out.raised = "")
        => LET score == probe.out.ret.risk_score
               b == probe.out.ret.risk_bucket
           IN  /\ b = "high" <=> score >= 7500
               /\ b = "medium" <=> (score >= 4000 /\ score < 7500)
               /\ b = "low" <=> score < 4000

\* C11: for every asset, every non-empty fire list, at any distance, and
\* every weather summary, compute_asset_risk returns without raising, with a
\* risk_score within [0, 1].
C11_CompletesInUnitInterval ==
    (IsRisk /\ probe.fires # <<>>)
        => /\ probe.out.raised = ""
           /\ probe.out.ret.risk_score >= 0
           /\ probe.out.ret.risk_score <= 10000

----------------------------------------------------------------------------
(* The score as a function of the distance to the nearest fire and of the  *)
(* wind alignment: lines 60 to 81 of compute_asset_risk applied to two     *)
(* geometries under the same wind speed and humidity.                     *)

\* Distances to the nearest fire, mm.
Dists == {0, 500000, 864985, 2000000, 5000000, 12000000}

\* Wind alignments, micro.
Alignments == {-1000000, -500000, 0, 500000, 1000000}

Geometries == [dist_km : Dists, alignment : Alignments]

ScorePair ==
    /\ probe = NoCall
    /\ \E asset \in Assets, a \in Geometries, b \in Geometries,
          wind_speed \in {0, 1500, 4000}, humidity \in {2000, 9000} :
           /\ asset.id = "substation-1"
           /\ probe' = [op |-> "scored", a |-> a, b |-> b,
                        wind_speed |-> wind_speed, humidity |-> humidity,
                        out_a |-> scored(asset, a.dist_km, a.alignment,
                                         wind_speed, humidity),
                        out_b |-> scored(asset, b.dist_km, b.alignment,
                                         wind_speed, humidity)]
    /\ UNCHANGED <<cache, origin, now, last>>

NextScore == ScorePair

SpecScore == Init /\ [][NextScore]_vars

IsScorePair ==
    /\ probe.op = "scored"
    /\ probe.out_a.raised = "" /\ probe.out_b.raised = ""

\* C12: with wind alignment, wind speed and humidity fixed, a larger
\* distance to the nearest fire never yields a larger risk_score.
C12_NonIncreasingInDistance ==
    (IsScorePair /\ probe.a.alignment = probe.b.alignment
       /\ probe.a.dist_km <= probe.b.dist_km)
        => probe.out_a.ret.risk_score >= probe.out_b.ret.risk_score

\* Two distances under the same wind, the nearer one scoring higher.
C12_Witness ==
    /\ IsScorePair /\ probe.a.alignment = probe.b.alignment
    /\ probe.a.dist_km < probe.b.dist_km
    /\ probe.out_a.ret.risk_score > probe.out_b.ret.risk_score

\* C13: with wind_speed_kmh > 0 and distance, wind speed and humidity fixed,
\* a larger wind alignment never yields a smaller risk_score.
C13_NonDecreasingInAlignment ==
    (IsScorePair /\ probe.wind_speed > 0 /\ probe.a.dist_km = probe.b.dist_km
       /\ probe.a.alignment <= probe.b.alignment)
        => probe.out_a.ret.risk_score <= probe.out_b.ret.risk_score

\* Wind blowing away from the asset scores lower than wind blowing toward it.
C13_Witness ==
    /\ IsScorePair /\ probe.wind_speed > 0 /\ probe.a.dist_km = probe.b.dist_km
    /\ probe.a.alignment < 0 /\ probe.b.alignment > 0
    /\ probe.out_a.ret.risk_score < probe.out_b.ret.risk_score

----------------------------------------------------------------------------
(* backend/cascade/impact.py.  Risk scores and the substation threshold    *)
(* are in units of 10^-4, distances and radii in mm, reported distances in *)
(* thousandths of a km.                                                    *)

\* by_type.get(t, []): the assets of one type, in the order of the list.
by_type(assets, t) == SelectSeq(assets, LAMBDA a : a.asset_type = t)

\* d.get("name", default)
GetName(a, default) == IF "name" \in DOMAIN a THEN a.name ELSE default

\* kw.get(key, default): a keyword argument or the parameter's default.
KwGet(kw, key, default) == IF key \in DOMAIN kw THEN kw[key] ELSE default

\* The mutant of risk_of that takes a substation without a score for one at
\* the highest risk.
risk_of_unscored_high(risks_by_asset_id, id) ==
    IF id \in DOMAIN risks_by_asset_id /\ "risk_score" \in DOMAIN risks_by_asset_id[id]
    THEN risks_by_asset_id[id].risk_score
    ELSE 10000

\* risks_by_asset_id.get(sub["id"], {}).get("risk_score", 0.0)
risk_of(risks_by_asset_id, id) ==
    IF id \in DOMAIN risks_by_asset_id /\ "risk_score" \in DOMAIN risks_by_asset_id[id]
    THEN risks_by_asset_id[id].risk_score
    ELSE 0

\* The mutant of below_threshold that also skips a substation at the threshold.
below_threshold_inclusive(risk, substation_threshold) == risk <= substation_threshold

\* "if risk < substation_threshold: continue"
below_threshold(risk, substation_threshold) == risk < substation_threshold

\* The mutant of within_radius that leaves the boundary out.
within_radius_strict(d, radius_km) == d < radius_km

\* "if d <= radius_km"
within_radius(d, radius_km) == d <= radius_km

\* _assets_within_radius(source, candidates, radius_km)
RECURSIVE assets_within_radius(_, _, _)
assets_within_radius(source, candidates, radius_km) ==
    IF candidates = <<>> THEN <<>>
    ELSE LET c == Head(candidates)
             d == haversine_km(source.lat, source.lon, c.lat, c.lon)
         IN  (IF within_radius(d, radius_km)
              THEN <<[asset_id |-> c.id, name |-> GetName(c, c.asset_type),
                      distance_km |-> DivRound(d, 1000)]>>
              ELSE <<>>)
             \o assets_within_radius(source, Tail(candidates), radius_km)

\* min(haversine_km(asset, f) for f in fires), fires not empty.
RECURSIVE MinFireDist(_, _)
MinFireDist(asset, fires) ==
    IF Len(fires) = 1
    THEN haversine_km(asset.lat, asset.lon, fires[1].lat, fires[1].lon)
    ELSE Min2(haversine_km(asset.lat, asset.lon, fires[1].lat, fires[1].lon),
              MinFireDist(asset, Tail(fires)))

\* _nearest_fire_dist_km(asset, fires)
nearest_fire_dist_km(asset, fires) ==
    IF fires = <<>> THEN None ELSE Num(MinFireDist(asset, fires))

\* The mutant of road_compromised that takes any fire for a near one.
road_compromised_any(nearest_fire_dist) == nearest_fire_dist # None

\* "if nearest_fire_dist is not None and nearest_fire_dist <= 2.0"
road_compromised(nearest_fire_dist) ==
    nearest_fire_dist # None /\ nearest_fire_dist.num <= 2000000

\* The loop over the substations.
RECURSIVE cascade_cards(_, _, _, _, _, _)
cascade_cards(subs, hospitals, water, risks_by_asset_id, substation_threshold, outage_radius_km) ==
    IF subs = <<>> THEN <<>>
    ELSE LET sub == Head(subs)
             risk == risk_of(risks_by_asset_id, sub.id)
         IN  (IF below_threshold(risk, substation_threshold) THEN <<>>
              ELSE <<[type |-> "substation_outage",
                      trigger_asset_id |-> sub.id,
                      trigger_name |-> GetName(sub, "substation"),
                      trigger_risk |-> risk,
                      impacted_hospitals |->
                          assets_within_radius(sub, hospitals, outage_radius_km),
                      impacted_water_facilities |->
                          assets_within_radius(sub, water, outage_radius_km)]>>)
             \o cascade_cards(Tail(subs), hospitals, water, risks_by_asset_id,
                              substation_threshold, outage_radius_km)

\* The loop over the roads.
RECURSIVE compromised_roads(_, _)
compromised_roads(roads, fires) ==
    IF roads = <<>> THEN <<>>
    ELSE LET road == Head(roads)
             nearest_fire_dist == nearest_fire_dist_km(road, fires)
         IN  (IF road_compromised(nearest_fire_dist)
              THEN <<[asset_id |-> road.id, name |-> GetName(road, "road"),
                      distance_to_fire_km |-> DivRound(nearest_fire_dist.num, 1000),
                      status |-> "compromised"]>>
              ELSE <<>>)
             \o compromised_roads(Tail(roads), fires)

\* The keyword parameters of compute_cascade_impacts and their defaults.
CascadeDefaults == [substation_threshold |-> 7000, outage_radius_km |-> 8000000]

\* compute_cascade_impacts(assets, risks_by_asset_id, fires, **kw): kw holds
\* the keyword arguments of the call; a keyword that is not a parameter of
\* the function makes the call raise TypeError.
compute_cascade_impacts(assets, risks_by_asset_id, fires, kw) ==
    IF ~(DOMAIN kw \subseteq DOMAIN CascadeDefaults) THEN Raise("TypeError")
    ELSE Ok([cascade_cards |->
                 cascade_cards(by_type(assets, "substation"),
                               by_type(assets, "hospital"),
                               by_type(assets, "water_facility"),
                               risks_by_asset_id,
                               KwGet(kw, "substation_threshold",
                                          CascadeDefaults.substation_threshold),
                               KwGet(kw, "outage_radius_km",
                                          CascadeDefaults.outage_radius_km)),
             compromised_roads |->
                 compromised_roads(by_type(assets, "major_road"), fires)])

----------------------------------------------------------------------------
(* The analyzer as a function of its arguments.                            *)

AssetAt(id, asset_type, i) ==
    [id |-> id, asset_type |-> asset_type, lat |-> Places[i].lat, lon |-> Places[i].lon]

\* The assets a request may hold, in the order of the list.
AssetUniverse ==
    << AssetAt("substation-1", "substation", 2) @@ [name |-> "Paradise Substation"],
       AssetAt("substation-2", "substation", 4),
       AssetAt("hospital-1", "hospital", 3) @@ [name |-> "Feather River Hospital"],
       AssetAt("water-1", "water_facility", 1),
       AssetAt("road-1", "major_road", 3) >>

\* The sub-list of the universe at the indices in S.
RECURSIVE SubList(_, _)
SubList(S, i) ==
    IF i > Len(AssetUniverse) THEN <<>>
    ELSE (IF i \in S THEN <<AssetUniverse[i]>> ELSE <<>>) \o SubList(S, i + 1)

AssetLists == {SubList(S, 1) : S \in SUBSET (1..Len(AssetUniverse))}

\* risks_by_asset_id: an assessment, an entry without a score, or no entry.
RiskMaps ==
    { [id \in ids |-> IF id = "substation-1" /\ r1 < 0 THEN [risk_bucket |-> "low"]
                      ELSE [risk_score |-> IF id = "substation-1" THEN r1 ELSE 9000]] :
        ids \in SUBSET {"substation-1", "substation-2"}, r1 \in {-1, 6999, 7000, 9000} }

CascadeFires == {<<>>, <<Places[1]>>, <<Places[4]>>, <<Places[4], Places[1]>>}

\* Keyword arguments: the three thresholds a caller may want to set.
CascadeKws ==
    { [k \in ks |-> IF k = "substation_threshold" THEN 9000
                    ELSE IF k = "outage_radius_km" THEN r
                    ELSE 500000] :
        ks \in SUBSET {"substation_threshold", "outage_radius_km", "road_proximity_km"},
        r \in {1402191, 1000000} }

ComputeCascadeImpacts ==
    /\ probe = NoCall
    /\ \E assets \in AssetLists, risks \in RiskMaps, fires \in CascadeFires,
          kw \in CascadeKws :
           probe' = [op |-> "compute_cascade_impacts", assets |-> assets,
                     risks |-> risks, fires |-> fires, kw |-> kw,
                     out |-> compute_cascade_impacts(assets, risks, fires, kw)]
    /\ UNCHANGED <<cache, origin, now, last>>

NextCascade == ComputeCascadeImpacts

SpecCascade == Init /\ [][NextCascade]_vars

----------------------------------------------------------------------------
(* Properties of the analyzer, under SpecCascade.                          *)

IsCascade == probe.op = "compute_cascade_impacts" /\ probe.out.raised = ""

\* The thresholds in force for the call: the caller's values, else the defaults.
SubstationThreshold == KwGet(probe.kw, "substation_threshold", 7000)

OutageRadius == KwGet(probe.kw, "outage_radius_km", 8000000)

RoadProximity == KwGet(probe.kw, "road_proximity_km", 2000000)

OfType(t) == {i \in 1..Len(probe.assets) : probe.assets[i].asset_type = t}

Cards == probe.out.ret.cascade_cards

\* The substations of the list at or above a threshold.
AtOrAbove(threshold) ==
    {i \in OfType("substation") :
        risk_of(probe.risks, probe.assets[i].id) >= threshold}

\* One card per substation at or above the threshold, and no other card.
CardsDecidedBy(threshold) ==
    /\ Len(Cards) = Cardinality(AtOrAbove(threshold))
    /\ \A i \in AtOrAbove(threshold) :
           Cardinality({k \in 1..Len(Cards) :
                           Cards[k].trigger_asset_id = probe.assets[i].id}) = 1

\* C14: exactly one cascade card for each substation of the list whose risk
\* score is >= substation_threshold, none for a substation below it, which
\* is skipped without error.
C14_OneCardPerSubstationAtRisk == IsCascade => CardsDecidedBy(SubstationThreshold)

\* Two substations in the list, one at the default threshold exactly and one
\* without an assessment: one card.
C14_Witness ==
    /\ IsCascade /\ Cardinality(OfType("substation")) = 2
    /\ "substation_threshold" \notin DOMAIN probe.kw
    /\ risk_of(probe.risks, "substation-1") = 7000
    /\ "substation-2" \notin DOMAIN probe.risks
    /\ Len(Cards) = 1 /\ Cards[1].trigger_asset_id = "substation-1"

\* The asset with an id.
AssetOf(id) == probe.assets[CHOOSE i \in 1..Len(probe.assets) : probe.assets[i].id = id]

Dist(a, b) == haversine_km(a.lat, a.lon, b.lat, b.lon)

\* The list names exactly the assets of type t within radius of the trigger.
ListsWithin(list, trigger, t, radius) ==
    /\ {list[k].asset_id : k \in 1..Len(list)}
         = {probe.assets[i].id : i \in {j \in OfType(t) :
                                          Dist(trigger, probe.assets[j]) <= radius}}
    /\ Len(list) = Cardinality({list[k].asset_id : k \in 1..Len(list)})

ImpactsDecidedBy(radius) ==
    \A k \in 1..Len(Cards) :
        /\ ListsWithin(Cards[k].impacted_hospitals,
                       AssetOf(Cards[k].trigger_asset_id), "hospital", radius)
        /\ ListsWithin(Cards[k].impacted_water_facilities,
                       AssetOf(Cards[k].trigger_asset_id), "water_facility", radius)

\* C15: in every card impacted_hospitals lists exactly the hospitals, and
\* impacted_water_facilities exactly the water facilities, at a distance
\* <= outage_radius_km of the trigger substation, the boundary included.
C15_ImpactedWithinRadius == IsCascade => ImpactsDecidedBy(OutageRadius)

\* A water facility exactly at the radius is listed, with its distance.
C15_Witness ==
    /\ IsCascade /\ OutageRadius = 1402191
    /\ \E k \in 1..Len(Cards) :
           /\ Cards[k].trigger_asset_id = "substation-1"
           /\ Cards[k].impacted_water_facilities
                = <<[asset_id |-> "water-1", name |-> "water_facility",
                     distance_km |-> 1402]>>

Roads == probe.out.ret.compromised_roads

\* The roads of the list with a fire within a distance.
RoadsNear(proximity) ==
    {i \in OfType("major_road") :
        /\ probe.fires # <<>>
        /\ \E f \in 1..Len(probe.fires) :
               Dist(probe.assets[i], probe.fires[f]) <= proximity}

RoadsDecidedBy(proximity) ==
    /\ {Roads[k].asset_id : k \in 1..Len(Roads)}
         = {probe.assets[i].id : i \in RoadsNear(proximity)}
    /\ Len(Roads) = Cardinality(RoadsNear(proximity))
    /\ \A k \in 1..Len(Roads) : Roads[k].status = "compromised"

\* C16: a major_road is in compromised_roads, with status 'compromised', if
\* and only if the fire list is non-empty and its nearest fire is <= 2.0 km
\* away; assets of other types never appear.
C16_RoadsNearFire == IsCascade => RoadsDecidedBy(2000000)

\* A road listed for its second fire, the first being farther than 2 km.
C16_Witness ==
    /\ IsCascade /\ probe.fires = <<Places[4], Places[1]>>
    /\ Roads = <<[asset_id |-> "road-1", name |-> "road",
                  distance_to_fire_km |-> 865, status |-> "compromised"]>>

\* C17: the three thresholds are parameters with defaults 0.7, 8.0 km and
\* 2.0 km: for any value the caller supplies for a threshold the call
\* returns and its output is decided by that value.
C17_ThresholdsConfigurable ==
    probe.op = "compute_cascade_impacts"
        => /\ probe.out.raised = ""
           /\ CardsDecidedBy(SubstationThreshold)
           /\ ImpactsDecidedBy(OutageRadius)
           /\ RoadsDecidedBy(RoadProximity)

----------------------------------------------------------------------------
(* backend/ingest/cache.py under sequences of calls.  origin records, for  *)
(* each name, the last write of its file: the time and data of a           *)
(* save_cache, or that the file was put into CACHE_DIR by something else   *)
(* and has no "timestamp" key.                                             *)

CacheNames == {"osm_a", "firms_a"}

CacheData == {[v |-> "x"], [v |-> "y"]}

MaxAges == {0, CACHE_TTL_SECONDS, 2 * CACHE_TTL_SECONDS}

SaveCache ==
    \E name \in CacheNames, data \in CacheData :
        /\ cache' = save_cache(cache, now, name, data)
        /\ origin' = [n \in DOMAIN origin \cup {name} |->
                         IF n = name
                         THEN [timestamp |-> now, data |-> data, foreign |-> FALSE]
                         ELSE origin[n]]
        /\ last' = [op |-> "save_cache", name |-> name]
        /\ UNCHANGED <<now, probe>>

\* A file without a "timestamp" key appears under a name.
ForeignEntry ==
    \E name \in CacheNames, data \in CacheData :
        /\ cache' = [n \in DOMAIN cache \cup {name} |->
                        IF n = name THEN [data |-> data] ELSE cache[n]]
        /\ origin' = [n \in DOMAIN origin \cup {name} |->
                         IF n = name THEN [foreign |-> TRUE] ELSE origin[n]]
        /\ last' = [op |-> "foreign", name |-> name]
        /\ UNCHANGED <<now, probe>>

LoadCache ==
    \E name \in CacheNames, max_age_seconds \in MaxAges :
        /\ last' = [op |-> "load_cache", name |-> name,
                    max_age_seconds |-> max_age_seconds, at |-> now,
                    wrote |-> IF name \in DOMAIN origin THEN origin[name] ELSE None,
                    ret |-> load_cache(cache, now, name, max_age_seconds)]
        /\ UNCHANGED <<cache, origin, now, probe>>

NextCache == SaveCache \/ ForeignEntry \/ LoadCache \/ Tick

SpecCache == Init /\ [][NextCache]_vars

\* C18: after any sequence of save_cache and load_cache calls, load_cache
\* returns the data of the most recent save_cache of the name when not more
\* than max_age_seconds have passed since that write, and None when the
\* entry is older, was never written, or has no stored timestamp.
C18_LoadReturnsFreshSave ==
    last.op = "load_cache"
        => IF last.wrote = None THEN last.ret = None
           ELSE IF last.wrote.foreign THEN last.ret = None
           ELSE IF last.at - last.wrote.timestamp <= last.max_age_seconds
           THEN last.ret = last.wrote.data
           ELSE last.ret = None

\* An entry read exactly max_age_seconds after its write.
C18_Witness ==
    /\ last.op = "load_cache" /\ last.wrote # None /\ ~last.wrote.foreign
    /\ last.max_age_seconds = CACHE_TTL_SECONDS
    /\ last.at - last.wrote.timestamp = CACHE_TTL_SECONDS
    /\ last.ret = last.wrote.data

----------------------------------------------------------------------------
(* The cache keys of the three ingestion functions.  The strings of the    *)
(* fire and asset keys are sequences of pieces: "_" and "," are pieces of  *)
(* their own, so that the joined key is the sequence the f-string yields.  *)

\* str.replace(old, new) on a sequence of pieces.
Replace(s, old, new) == [i \in 1..Len(s) |-> IF s[i] = old THEN new ELSE s[i]]

\* firms._cache_key(bbox, days, source)
firms_cache_key(bbox, days, source) ==
    <<"firms", "_">> \o source \o <<"_", days, "_">> \o Replace(bbox, ",", "_")

\* The cache key of fetch_assets(bbox).
osm_cache_key(bbox) == <<"osm", "_">> \o Replace(bbox, ",", "_")

\* Weather queries: points less than 0.0005 degrees apart, and farther.
KeyWeatherQueries ==
    [lat : {398004, 398001, 398100}, lon : {-1216000}, hours : {24, 30},
     source : {GRIDMET, OPENMETEO}]

Bboxes ==
    { <<"-121.7", ",", "39.7", ",", "-121.5", ",", "39.9">>,
      <<"-121.7", ",", "39.7", ",", "-121.5", ",", "39.8">> }

KeyFireQueries ==
    [bbox : Bboxes, days : {"1", "2"},
     source : {<<"VIIRS", "_", "NOAA20", "_", "NRT">>, <<"MODIS", "_", "NRT">>}]

\* Whether a value saved under key k1 is what a lookup of k2 returns.
Reused(k1, k2) ==
    load_cache(save_cache(EmptyDir, 0, k1, [v |-> "x"]), 0, k2, CACHE_TTL_SECONDS) # None

\* Two calls of fetch_weather_summary in a row, from an empty cache.
WeatherKeys ==
    /\ probe = NoCall
    /\ \E q1 \in KeyWeatherQueries, q2 \in KeyWeatherQueries :
         \E first \in {fetch_weather_summary(EmptyDir, 0, q1.lat, q1.lon, q1.hours,
                                             q1.source, GridOk, OmOk)} :
           probe' = [op |-> "cache_key", provider |-> "weather", q1 |-> q1, q2 |-> q2,
                     k1 |-> weather_cache_key(q1.lat, q1.lon, q1.hours, q1.source),
                     k2 |-> weather_cache_key(q2.lat, q2.lon, q2.hours, q2.source),
                     reused |-> fetch_weather_summary(first.cache, 0, q2.lat, q2.lon,
                                                      q2.hours, q2.source,
                                                      GridOk, OmOk).hit]
    /\ UNCHANGED <<cache, origin, now, last>>

FirmsKeys ==
    /\ probe = NoCall
    /\ \E q1 \in KeyFireQueries, q2 \in KeyFireQueries :
         \E k1 \in {firms_cache_key(q1.bbox, q1.days, q1.source)},
            k2 \in {firms_cache_key(q2.bbox, q2.days, q2.source)} :
           probe' = [op |-> "cache_key", provider |-> "firms", q1 |-> q1, q2 |-> q2,
                     k1 |-> k1, k2 |-> k2, reused |-> Reused(k1, k2)]
    /\ UNCHANGED <<cache, origin, now, last>>

\* An asset query and a fire query or another asset query.
OsmKeys ==
    /\ probe = NoCall
    /\ \E b1 \in Bboxes, q2 \in KeyFireQueries \cup [bbox : Bboxes] :
         \E k1 \in {osm_cache_key(b1)},
            k2 \in {IF "days" \in DOMAIN q2
                    THEN firms_cache_key(q2.bbox, q2.days, q2.source)
                    ELSE osm_cache_key(q2.bbox)} :
           probe' = [op |-> "cache_key", provider |-> "osm", q1 |-> [bbox |-> b1],
                     q2 |-> q2, k1 |-> k1, k2 |-> k2, reused |-> Reused(k1, k2)]
    /\ UNCHANGED <<cache, origin, now, last>>

NextKeys == WeatherKeys \/ FirmsKeys \/ OsmKeys

SpecKeys == Init /\ [][NextKeys]_vars

\* C19: two ingestion queries that differ in provider, source or
\* geographic/day parameters never have the same cache key, so a call is
\* never answered with the cached result of a different query.
C19_KeysInjective ==
    (probe.op = "cache_key" /\ probe.q1 # probe.q2)
        => /\ probe.k1 # probe.k2
           /\ ~probe.reused

----------------------------------------------------------------------------
(* backend/ingest/cache.py under concurrent callers.  save_cache is not    *)
(* one step: path.open("w") truncates the file, json.dump hands the text   *)
(* to the file object, which flushes it to the file in pieces, the last    *)
(* one when the with-block closes the file.  Here cache maps a name to the *)
(* content of its file, the sequence of the pieces flushed so far, and     *)
(* origin maps a thread inside save_cache to its position.  The read of    *)
(* load_cache is taken as one step, which favours the code.                *)

\* The pieces in which the text of one payload reaches the file.
Flushes == 2

Threads == {"t1", "t2"}

TornName == "osm_a"

\* A stretch of the file that no write has filled.
Hole == [i |-> 0]

\* json.dump(payload, f): the text of the payload, in pieces.
Serialize(payload) ==
    [i \in 1..Flushes |->
        [i |-> i, timestamp |-> payload.timestamp, data |-> payload.data]]

\* write(2) of one piece at the offset pos of the writer's file description.
WriteAt(content, pos, piece) ==
    [k \in 1..Max2(Len(content), pos + 1) |->
        IF k = pos + 1 THEN piece
        ELSE IF k <= Len(content) THEN content[k]
        ELSE Hole]

\* Every piece of the content is in its place.
InPlace(content) == \A k \in 1..Len(content) : content[k].i = k

\* The content is the whole text of one payload.
IsWhole(content) ==
    /\ Len(content) = Flushes
    /\ InPlace(content)
    /\ content = Serialize([timestamp |-> content[1].timestamp,
                            data |-> content[1].data])

\* The content has the length of a text and every piece is in its place,
\* the pieces coming from different payloads.
IsMixed(content) ==
    /\ Len(content) = Flushes
    /\ InPlace(content)
    /\ ~IsWhole(content)

\* json.load(f): the payload of a whole text; JSONDecodeError on an empty or
\* cut text; on a text mixed from two payloads, JSONDecodeError or, when the
\* pieces fit, a payload that no save_cache wrote.
json_load(content) ==
    IF IsWhole(content)
    THEN {Ok([timestamp |-> content[1].timestamp, data |-> content[1].data])}
    ELSE IF IsMixed(content)
    THEN {Raise("JSONDecodeError"),
          Ok([timestamp |-> content[1].timestamp,
              data |-> [torn |-> {content[k].data : k \in 1..Flushes}]])}
    ELSE {Raise("JSONDecodeError")}

\* path.open("w"): the file exists and is empty.
open_w(files, name) ==
    [n \in DOMAIN files \cup {name} |-> IF n = name THEN <<>> ELSE files[n]]

\* Lines 36 to 38: a thread builds its payload and opens the file.
SaveOpen(t) ==
    /\ t \notin DOMAIN origin
    /\ \E data \in CacheData :
           origin' = [u \in DOMAIN origin \cup {t} |->
                         IF u = t
                         THEN [pos |-> 0,
                               text |-> Serialize([timestamp |-> now, data |-> data])]
                         ELSE origin[u]]
    /\ cache' = open_w(cache, TornName)
    /\ last' = [op |-> "save_cache", name |-> TornName]
    /\ UNCHANGED <<now, probe>>

\* Line 39 and the end of the with-block: one piece reaches the file.
SaveFlush(t) ==
    /\ t \in DOMAIN origin
    /\ origin[t].pos < Flushes
    /\ cache' = [cache EXCEPT ![TornName] =
                     WriteAt(@, origin[t].pos, origin[t].text[origin[t].pos + 1])]
    /\ origin' = [origin EXCEPT ![t].pos = @ + 1]
    /\ last' = [op |-> "save_cache", name |-> TornName]
    /\ UNCHANGED <<now, probe>>

\* save_cache returns.
SaveReturn(t) ==
    /\ t \in DOMAIN origin
    /\ origin[t].pos = Flushes
    /\ origin' = [u \in DOMAIN origin \ {t} |-> origin[u]]
    /\ last' = [op |-> "save_cache", name |-> TornName]
    /\ UNCHANGED <<cache, now, probe>>

\* load_cache(name, CACHE_TTL_SECONDS) by a further thread: lines 17 to 22,
\* then lines 23 to 32 on the payload read.
LoadDuringSave ==
    /\ IF TornName \notin DOMAIN cache
       THEN last' = [op |-> "load_cache", name |-> TornName,
                     saving |-> DOMAIN origin, content |-> None, out |-> Ok(None)]
       ELSE \E p \in json_load(cache[TornName]) :
                last' = [op |-> "load_cache", name |-> TornName,
                         saving |-> DOMAIN origin,
                         content |-> [pieces |-> cache[TornName]],
                         out |-> IF p.raised # "" THEN p
                                 ELSE Ok(load_cache([n \in {TornName} |-> p.ret], now,
                                                    TornName, CACHE_TTL_SECONDS))]
    /\ UNCHANGED <<cache, origin, now, probe>>

NextTorn ==
    \/ \E t \in Threads : SaveOpen(t)
    \/ \E t \in Threads : SaveFlush(t)
    \/ \E t \in Threads : SaveReturn(t)
    \/ LoadDuringSave

SpecTorn == Init /\ [][NextTorn]_vars

\* C20: when several threads call save_cache and load_cache on one name
\* concurrently, every load_cache returns normally and sees either no entry
\* or the complete snapshot of a single save_cache, never a torn or
\* half-written one.
C20_NoTornRead ==
    last.op = "load_cache"
        => /\ last.out.raised = ""
           /\ last.content = None \/ IsWhole(last.content.pieces)

----------------------------------------------------------------------------
(* nearest_point as a function of its arguments: an origin among the       *)
(* places and up to MaxPoints candidates, places 2 and 6 being at equal    *)
(* distance of places 1, 3 and 5.                                          *)

MaxPoints == 3

PlaceSet == {Places[i] : i \in 1..Len(Places)}

NearestPoint ==
    /\ probe = NoCall
    /\ \E o \in PlaceSet, points \in SeqsUpTo(PlaceSet, MaxPoints) :
           probe' = [op |-> "nearest_point", lat |-> o.lat, lon |-> o.lon,
                     points |-> points,
                     out |-> nearest_point(o.lat, o.lon, points)]
    /\ UNCHANGED <<cache, origin, now, last>>

NextNearest == NearestPoint

SpecNearest == Init /\ [][NextNearest]_vars

\* The distance of the i-th candidate of the call to its origin.
CandidateDist(i) ==
    haversine_km(probe.lat, probe.lon, probe.points[i].lat, probe.points[i].lon)

\* C21: nearest_point returns None for no candidate and otherwise the
\* coordinates and the distance of a candidate at the minimum distance over
\* all candidates, the first such candidate in iteration order.
C21_NearestIsFirstMinimum ==
    probe.op = "nearest_point"
        => IF probe.points = <<>> THEN probe.out = None
           ELSE /\ probe.out # None
                /\ \E i \in 1..Len(probe.points) :
                       /\ probe.out = [dist |-> CandidateDist(i),
                                       lat |-> probe.points[i].lat,
                                       lon |-> probe.points[i].lon]
                       /\ \A j \in 1..Len(probe.points) :
                              CandidateDist(j) >= CandidateDist(i)
                       /\ \A j \in 1..(i - 1) : CandidateDist(j) > CandidateDist(i)

\* Two candidates at the same, minimum distance, after a farther one: the
\* first of the two is returned.
C21_Witness ==
    /\ probe.op = "nearest_point"
    /\ probe.lat = Places[1].lat /\ probe.lon = Places[1].lon
    /\ probe.points = <<Places[4], Places[6], Places[2]>>
    /\ probe.out = [dist |-> 1402191, lat |-> Places[6].lat, lon |-> Places[6].lon]

----------------------------------------------------------------------------
(* backend/ingest/firms.py.  A string that may be None is [str |-> s] or   *)
(* None; a cached list of points is [list |-> points].  Confidence scores  *)
(* and thresholds are whole numbers.                                       *)

FIRMS_CACHE_TTL_SECONDS == 15 * 60

DEFAULT_SOURCE == <<"VIIRS", "_", "NOAA20", "_", "NRT">>

Str(s) == [str |-> s]

Digits == <<"0", "1", "2", "3", "4", "5", "6", "7", "8", "9">>

IsDigit(c) == \E i \in 1..Len(Digits) : Digits[i] = c

DigitValue(c) == (CHOOSE i \in 1..Len(Digits) : Digits[i] = c) - 1

\* float(raw) for a string of digits.
RECURSIVE DigitsValue(_)
DigitsValue(raw) ==
    IF raw = <<>> THEN 0
    ELSE 10 * DigitsValue(SubSeq(raw, 1, Len(raw) - 1)) + DigitValue(raw[Len(raw)])

\* label_map
LabelScore(raw) ==
    IF raw \in {<<"l">>, <<"l", "o", "w">>} THEN Num(30)
    ELSE IF raw \in {<<"n">>, <<"n", "o", "m", "i", "n", "a", "l">>} THEN Num(60)
    ELSE IF raw \in {<<"h">>, <<"h", "i", "g", "h">>} THEN Num(90)
    ELSE None

\* The part of _confidence_score after strip().lower(): raw is a label, a
\* string of digits, or a string float() rejects.
score_of_raw(raw) ==
    IF raw = <<>> THEN None
    ELSE IF LabelScore(raw) # None THEN LabelScore(raw)
    ELSE IF \A i \in 1..Len(raw) : IsDigit(raw[i])
    THEN Num(Max2(0, Min2(100, DigitsValue(raw))))
    ELSE None

\* _confidence_score(value)
confidence_score(value) ==
    IF value = None THEN None ELSE score_of_raw(Lower(Strip(value.str)))

\* row.get(key)
RowGet(row, key) == IF key \in DOMAIN row THEN row[key] ELSE None

\* The body of the loop over the rows for one row with both coordinates.
point_of(row, n) ==
    [id |-> IF RowGet(row, "track") # None /\ row.track.str # <<>>
            THEN row.track.str ELSE <<"fire", "_", n>>,
     lat |-> row.latitude,
     lon |-> row.longitude,
     confidence |-> RowGet(row, "confidence"),
     confidence_score |-> confidence_score(RowGet(row, "confidence"))]

\* The loop over the rows of the CSV text, points being the points so far;
\* row.get("latitude") is None when the row has no such column.
RECURSIVE points_of(_, _)
points_of(rows, points) ==
    IF rows = <<>> THEN points
    ELSE points_of(Tail(rows),
                   IF "latitude" \notin DOMAIN Head(rows)
                      \/ "longitude" \notin DOMAIN Head(rows)
                   THEN points
                   ELSE Append(points, point_of(Head(rows), Len(points))))

\* _filter_by_confidence(points, min_confidence)
filter_by_confidence(points, min_confidence) ==
    IF min_confidence = None THEN points
    ELSE SelectSeq(points,
                   LAMBDA p : /\ p.confidence_score # None
                              /\ p.confidence_score.num >= min_confidence.num)

FiresOutcome(ret, raised, c, hit, contacted) ==
    [ret |-> ret, raised |-> raised, cache |-> c, hit |-> hit, contacted |-> contacted]

\* "if not api_key: return []"
no_api_key(c) == FiresOutcome(<<>>, "", c, FALSE, FALSE)

\* Lines 41 to 71: the request and what follows, w being the upstream.
firms_request(c, t, cache_key, min_confidence, w) ==
    IF w.kind = "down" THEN FiresOutcome(None, "ConnectionError", c, FALSE, TRUE)
    ELSE IF w.kind = "http" THEN FiresOutcome(None, "HTTPError", c, FALSE, TRUE)
    ELSE FiresOutcome(filter_by_confidence(points_of(w.rows, <<>>), min_confidence),
                      "",
                      save_cache(c, t, cache_key, [list |-> points_of(w.rows, <<>>)]),
                      FALSE, TRUE)

\* fetch_fires(bbox, days, source, min_confidence) on directory c at time t,
\* api_key being os.getenv("FIRMS_API_KEY").
fetch_fires(c, t, bbox, days, source, min_confidence, api_key, w) ==
    LET cache_key == firms_cache_key(bbox, days, source)
        cached == load_cache(c, t, cache_key, FIRMS_CACHE_TTL_SECONDS)
    IN  IF cached # None
        THEN FiresOutcome(filter_by_confidence(cached.list, min_confidence), "",
                          c, TRUE, FALSE)
        ELSE IF api_key = None \/ api_key.str = <<>> THEN no_api_key(c)
        ELSE firms_request(c, t, cache_key, min_confidence, w)

----------------------------------------------------------------------------
(* fetch_fires under the states of its surroundings: the key in the        *)
(* environment, the upstream, the cache and the clock.                     *)

MaxRows == 2

FireRows ==
    { [latitude |-> Places[1].lat, longitude |-> Places[1].lon,
       confidence |-> Str(<<" ", "H">>), track |-> Str(<<"t1">>)],
      [latitude |-> Places[4].lat, longitude |-> Places[4].lon,
       confidence |-> Str(<<"4", "5">>)],
      [latitude |-> Places[5].lat, longitude |-> Places[5].lon],
      [longitude |-> Places[1].lon, confidence |-> Str(<<"l">>)] }

FirmsWorlds ==
    { [kind |-> "ok", rows |-> rows] : rows \in SeqsUpTo(FireRows, MaxRows) }
    \cup { [kind |-> "down"], [kind |-> "http"] }

ApiKeys == {None, Str(<<>>), Str(<<"k">>)}

MinConfidences == {None, Num(60)}

FireQuery == [bbox |-> <<"-121.7", ",", "39.7", ",", "-121.5", ",", "39.9">>,
              days |-> "1", source |-> DEFAULT_SOURCE]

FetchFires ==
    \E min_confidence \in MinConfidences, api_key \in ApiKeys, w \in FirmsWorlds :
      \E r \in {fetch_fires(cache, now, FireQuery.bbox, FireQuery.days,
                            FireQuery.source, min_confidence, api_key, w)} :
        /\ cache' = r.cache
        /\ last' = [op |-> "fetch_fires", min_confidence |-> min_confidence,
                    api_key |-> api_key, upstream |-> w.kind,
                    hit |-> r.hit, contacted |-> r.contacted,
                    out |-> [raised |-> r.raised,
                             ret |-> IF r.raised = "" THEN [list |-> r.ret] ELSE None]]
        /\ UNCHANGED <<origin, now, probe>>

NextFires == FetchFires \/ Tick

SpecFires == Init /\ [][NextFires]_vars

\* C22: fetch_fires returns an empty list only when data was obtained, from
\* a cache entry or from an upstream that answered; whenever no data could
\* be obtained it raises an error.
C22_NoSilentEmpty ==
    last.op = "fetch_fires"
        => IF last.hit \/ (last.contacted /\ last.upstream = "ok")
           THEN last.out.raised = ""
           ELSE last.out.raised # ""

----------------------------------------------------------------------------
(* The weather cache over time, under SpecWeather.                         *)

\* The key of the call that last' records.
CalledKey ==
    weather_cache_key(last'.q.lat, last'.q.lon, last'.q.hours,
                      Lower(Strip(last'.source)))

\* The step is a call of fetch_weather_summary.
IsWeatherCall == now' = now /\ last'.op = "fetch_weather_summary"

\* Before the step the directory holds an entry of the called key that is
\* not older than the TTL.
HeldFresh ==
    /\ CalledKey \in DOMAIN cache
    /\ now - cache[CalledKey].timestamp <= CACHE_TTL_SECONDS

\* The call answers from the directory and leaves everything alone.
AnswersFromCache ==
    /\ last'.hit /\ last'.raised = ""
    /\ last'.ret = cache[CalledKey].data
    /\ last'.grid = "untried" /\ last'.om = "untried"
    /\ cache' = cache

\* The call goes to a provider, unless the source is unsupported, and stores
\* the summary it returns under its key.
FetchesAndStores ==
    /\ ~last'.hit
    /\ last'.raised # UNSUPPORTED => (last'.grid # "untried" \/ last'.om # "untried")
    /\ IF last'.raised = ""
       THEN cache' = save_cache(cache, now, CalledKey, last'.ret)
       ELSE cache' = cache

\* C23: the weather cache is read-through.  A successful fetch on a miss
\* stores the returned summary under the key of the query; a call with the
\* same query within the TTL returns the stored summary unchanged and
\* contacts no provider; once the TTL has elapsed the call fetches again.
C23_ReadThrough ==
    [][IsWeatherCall => IF HeldFresh THEN AnswersFromCache ELSE FetchesAndStores]_vars

\* A call answered from an entry that was stored exactly one TTL earlier.
C23_Witness ==
    /\ last.op = "fetch_weather_summary" /\ last.hit
    /\ now = CACHE_TTL_SECONDS
    /\ \E k \in DOMAIN cache : cache[k].timestamp = 0 /\ cache[k].data = last.ret

----------------------------------------------------------------------------
(* backend/main.py: one POST /risk request, step by step.  The three       *)
(* ingestion calls are taken by their outcomes; the scorer and the cascade *)
(* analysis are the operators above.  last holds the request: the place    *)
(* reached, what has been fetched and computed, the calls made so far and, *)
(* at the end, the response.                                               *)

\* {**a, **b}
Merge(a, b) == [k \in DOMAIN a \cup DOMAIN b |-> IF k \in DOMAIN b THEN b[k] ELSE a[k]]

\* req.bbox.split(",")
RECURSIVE Split(_, _)
Split(s, sep) ==
    IF \A i \in 1..Len(s) : s[i] # sep THEN <<s>>
    ELSE LET i == CHOOSE j \in 1..Len(s) : s[j] = sep /\ \A k \in 1..(j - 1) : s[k] # sep
         IN  <<SubSeq(s, 1, i - 1)>> \o Split(SubSeq(s, i + 1, Len(s)), sep)

\* float(v) for the numbers the requests hold, in 10^-4 degrees.
FloatOf ==
    [v \in {<<"-121.7">>, <<"-121.5">>, <<"39.7">>, <<"39.9">>} |->
        IF v = <<"-121.7">> THEN -1217000
        ELSE IF v = <<"-121.5">> THEN -1215000
        ELSE IF v = <<"39.7">> THEN 397000
        ELSE 399000]

\* Lines 68 to 70: the centre of the bounding box, or the exception of the
\* unpacking or of float().
bbox_center(bbox) ==
    LET parts == Split(bbox, ",")
    IN  IF Len(parts) # 4 \/ \E i \in 1..Len(parts) : parts[i] \notin DOMAIN FloatOf
        THEN Raise("ValueError")
        ELSE Ok([lat |-> (FloatOf[parts[2]] + FloatOf[parts[4]]) \div 2,
                 lon |-> (FloatOf[parts[1]] + FloatOf[parts[3]]) \div 2])

\* raise HTTPException(status_code=502, detail=...), and the answer to an
\* exception that no handler catches.
HttpError(status, detail) == [status |-> status, detail |-> detail]

\* The requests: a bounding box, and one that lacks a coordinate.
RiskRequests ==
    { [bbox |-> b, horizon_hours |-> h, firms_days |-> "1",
       fire_source |-> DEFAULT_SOURCE] :
        h \in {24, 48},
        b \in { <<"-121.7", ",", "39.7", ",", "-121.5", ",", "39.9">>,
                <<"-121.7", ",", "39.7", ",", "-121.5">> } }

\* What fetch_fires may answer: an exception, no detection, a detection
\* near the assets, a detection far from them.
RiskFiresOutcomes ==
    { Raise("HTTPError"), Ok([list |-> <<>>]), Ok([list |-> <<Places[1]>>]),
      Ok([list |-> <<Places[5]>>]) }

\* What fetch_assets may answer.
RiskAssetsOutcomes ==
    { Raise("Timeout"), Ok([list |-> <<>>]),
      Ok([list |-> <<AssetUniverse[1]>>]),
      Ok([list |-> <<AssetUniverse[3], AssetUniverse[1]>>]) }

\* What fetch_weather_summary may answer.
RiskWeatherOutcomes ==
    { Raise("ConnectionError"),
      Ok([temperature_c |-> 2000, humidity_pct |-> 3500, wind_speed_kmh |-> 1500,
          wind_direction_deg |-> 180000, weather_source |-> "gridmet"]),
      Ok([temperature_c |-> 3000, humidity_pct |-> 2000, wind_speed_kmh |-> 4000,
          wind_direction_deg |-> 45000, weather_source |-> "openmeteo_fallback"]) }

IsRequest == last.op = "risk"

\* The request ends with a response.
Respond(response, event) ==
    last' = [last EXCEPT !.pc = "done", !.response = response,
                         !.events = Append(@, event)]

\* A client posts a request.
RiskBegin ==
    /\ last = NoCall
    /\ \E req \in RiskRequests :
           last' = [op |-> "risk", pc |-> "fetch_fires", req |-> req,
                    fires |-> <<>>, assets |-> <<>>, weather |-> None,
                    scored_assets |-> <<>>, risks_by_asset_id |-> EmptyDir,
                    events |-> <<>>, response |-> None]
    /\ UNCHANGED <<cache, origin, now, probe>>

\* Line 63.
RiskFetchFires ==
    /\ IsRequest /\ last.pc = "fetch_fires"
    /\ \E out \in RiskFiresOutcomes :
         \E event \in {[call |-> "fetch_fires", bbox |-> last.req.bbox,
                        raised |-> out.raised]} :
           IF out.raised # ""
           THEN Respond(HttpError(502, "Data ingestion error"), event)
           ELSE last' = [last EXCEPT !.pc = "fetch_assets", !.fires = out.ret.list,
                                     !.events = Append(@, event)]
    /\ UNCHANGED <<cache, origin, now, probe>>

\* Line 64.
RiskFetchAssets ==
    /\ IsRequest /\ last.pc = "fetch_assets"
    /\ \E out \in RiskAssetsOutcomes :
         \E event \in {[call |-> "fetch_assets", bbox |-> last.req.bbox,
                        raised |-> out.raised]} :
           IF out.raised # ""
           THEN Respond(HttpError(502, "Data ingestion error"), event)
           ELSE last' = [last EXCEPT !.pc = "fetch_weather", !.assets = out.ret.list,
                                     !.events = Append(@, event)]
    /\ UNCHANGED <<cache, origin, now, probe>>

\* Lines 68 to 75, and the beginning of the loop.
RiskFetchWeather ==
    /\ IsRequest /\ last.pc = "fetch_weather"
    /\ \E center \in {bbox_center(last.req.bbox)} :
         IF center.raised # ""
         THEN /\ last' = [last EXCEPT !.pc = "done",
                                       !.response = HttpError(500, center.raised)]
         ELSE \E out \in RiskWeatherOutcomes :
                \E event \in {[call |-> "fetch_weather_summary",
                               lat |-> center.ret.lat, lon |-> center.ret.lon,
                               hours |-> last.req.horizon_hours,
                               raised |-> out.raised]} :
                  IF out.raised # ""
                  THEN Respond(HttpError(502, "Weather fetch error"), event)
                  ELSE last' = [last EXCEPT
                                  !.pc = IF last.assets = <<>> THEN "cascade" ELSE "score",
                                  !.weather = out.ret,
                                  !.events = Append(@, event)]
    /\ UNCHANGED <<cache, origin, now, probe>>

\* Lines 80 to 84: one turn of the loop, for the next asset of the list.
RiskScoreAsset ==
    /\ IsRequest /\ last.pc = "score"
    /\ \E asset \in {last.assets[Len(last.scored_assets) + 1]} :
         \E risk_result \in {compute_asset_risk(asset, last.fires, last.weather)} :
           \E event \in {[call |-> "compute_asset_risk", asset |-> asset.id,
                          fires |-> last.fires, weather |-> last.weather,
                          raised |-> risk_result.raised]} :
             IF risk_result.raised # ""
             THEN Respond(HttpError(500, risk_result.raised), event)
             ELSE last' = [last EXCEPT
                             !.pc = IF Len(last.scored_assets) + 1 = Len(last.assets)
                                    THEN "cascade" ELSE "score",
                             !.scored_assets = Append(@, Merge(asset, risk_result.ret)),
                             !.risks_by_asset_id =
                                 [id \in DOMAIN @ \cup {asset.id} |->
                                     IF id = asset.id THEN risk_result.ret ELSE @[id]],
                             !.events = Append(@, event)]
    /\ UNCHANGED <<cache, origin, now, probe>>

\* Lines 86 to 100.
RiskCascade ==
    /\ IsRequest /\ last.pc = "cascade"
    /\ \E cascade \in {compute_cascade_impacts(last.assets, last.risks_by_asset_id,
                                                last.fires, EmptyDir)} :
         \E event \in {[call |-> "compute_cascade_impacts", assets |-> last.assets,
                        fires |-> last.fires, raised |-> cascade.raised]} :
           IF cascade.raised # ""
           THEN Respond(HttpError(500, cascade.raised), event)
           ELSE Respond([status |-> 200,
                         bbox |-> last.req.bbox,
                         horizon_hours |-> last.req.horizon_hours,
                         weather |-> last.weather,
                         fire_count |-> Len(last.fires),
                         asset_count |-> Len(last.assets),
                         assets |-> last.scored_assets,
                         cascade |-> cascade.ret], event)
    /\ UNCHANGED <<cache, origin, now, probe>>

NextRequest ==
    \/ RiskBegin
    \/ RiskFetchFires
    \/ RiskFetchAssets
    \/ RiskFetchWeather
    \/ RiskScoreAsset
    \/ RiskCascade

SpecRequest == Init /\ [][NextRequest]_vars

----------------------------------------------------------------------------
(* Properties of a request, under SpecRequest.                             *)

Calls == [i \in 1..Len(last.events) |-> last.events[i].call]

Ingestion == <<"fetch_fires", "fetch_assets", "fetch_weather_summary">>

\* The three ingestion calls have been made, in their order, and succeeded.
Ingested ==
    /\ Len(last.events) >= 3
    /\ SubSeq(Calls, 1, 3) = Ingestion
    /\ \A i \in 1..3 : last.events[i].raised = ""

\* The calls so far are the calls of the fixed order, as far as they go.
InFixedOrder ==
    \A i \in 1..Len(last.events) :
        IF i <= 3 THEN Calls[i] = Ingestion[i]
        ELSE IF i <= 3 + Len(last.assets)
        THEN /\ Calls[i] = "compute_asset_risk"
             /\ last.events[i].asset = last.assets[i - 3].id
             /\ last.events[i].fires = last.fires
             /\ last.events[i].weather = last.weather
        ELSE /\ i = 4 + Len(last.assets)
             /\ Calls[i] = "compute_cascade_impacts"
             /\ last.events[i].fires = last.fires

\* C24: a /risk request fetches fires and assets, then one weather summary,
\* then scores each asset once against that fire list and that summary, then
\* runs the cascade analysis once.  Scoring starts only after the three
\* ingestion calls have succeeded; if one of them fails the request ends in
\* an error response with no scoring and no cascade analysis, and otherwise
\* it ends with every asset scored and the cascade analysis run.
C24_FixedOrder ==
    IsRequest
        => /\ InFixedOrder
           /\ Len(last.events) > 3 => Ingested
           /\ last.pc = "done"
                => IF Ingested
                   THEN /\ Len(last.events) = 4 + Len(last.assets)
                        /\ last.response.status = 200
                   ELSE /\ Len(last.events) <= 3
                        /\ last.response.status # 200

----------------------------------------------------------------------------
(* The reported effective distance, for distances, alignments and winds    *)
(* from still air to a strong wind.                                        *)

\* Wind speeds, centi km/h.
WindSpeeds == {0, 50, 200, 1500, 4000}

EffectiveDistance ==
    /\ probe = NoCall
    /\ \E asset \in Assets, dist_km \in Dists, alignment \in Alignments,
          wind_speed \in WindSpeeds :
           /\ asset.id = "substation-1"
           /\ probe' = [op |-> "effective_dist", dist_km |-> dist_km,
                        alignment |-> alignment, wind_speed |-> wind_speed,
                        out |-> scored(asset, dist_km, alignment, wind_speed, 3500)]
    /\ UNCHANGED <<cache, origin, now, last>>

NextEffective == EffectiveDistance

SpecEffective == Init /\ [][NextEffective]_vars

\* C25: whenever the wind blows toward the asset (wind_alignment > 0 and
\* wind_speed_kmh > 0), the effective_dist that compute_asset_risk reports
\* is smaller than the distance dist_km to the nearest fire.
C25_WindShrinksDistance ==
    (/\ probe.op = "effective_dist" /\ probe.out.raised = ""
     /\ probe.alignment > 0 /\ probe.wind_speed > 0)
        => probe.out.ret.features.effective_dist.num * 1000 < probe.dist_km

----------------------------------------------------------------------------
(* The fallback summary in the cache, under SpecWeather.                   *)

\* The step is a call that asks for the gridded provider.
IsGridmetCall == IsWeatherCall /\ Lower(Strip(last'.source)) = GRIDMET

\* Before the step the directory holds a fresh fallback summary of the key.
HeldFallback ==
    HeldFresh /\ cache[CalledKey].data.weather_source = "openmeteo_fallback"

\* The call met a failing gridded provider and returned normally.
FellBack == ~last'.hit /\ last'.grid \notin {"ok", "untried"} /\ last'.raised = ""

\* C26: the fallback summary obtained after a failure of the gridded
\* provider is stored under the 'gridmet' key, and every later 'gridmet'
\* call of the same query within the TTL returns that
\* 'openmeteo_fallback' summary without trying the gridded provider again,
\* whatever the state of that provider.
C26_FallbackIsCached ==
    [][IsGridmetCall =>
          /\ FellBack =>
                /\ last'.ret.weather_source = "openmeteo_fallback"
                /\ cache' = save_cache(cache, now, CalledKey, last'.ret)
          /\ HeldFallback =>
                /\ last'.hit /\ last'.raised = ""
                /\ last'.ret = cache[CalledKey].data
                /\ last'.grid = "untried" /\ last'.om = "untried"
                /\ cache' = cache]_vars

\* A 'gridmet' call answered with the fallback summary that a call before
\* the last tick of the clock had stored.
C26_Witness ==
    /\ last.op = "fetch_weather_summary" /\ last.hit
    /\ Lower(Strip(last.source)) = GRIDMET
    /\ last.ret.weather_source = "openmeteo_fallback"
    /\ last.grid = "untried"
    /\ now > 0
    /\ \E k \in DOMAIN cache : cache[k].data = last.ret /\ cache[k].timestamp < now

----------------------------------------------------------------------------
(* Substations without a score, under SpecCascade.                         *)

\* The i-th asset has no entry in risks_by_asset_id, or one without a score.
Unscored(i) ==
    \/ probe.assets[i].id \notin DOMAIN probe.risks
    \/ "risk_score" \notin DOMAIN probe.risks[probe.assets[i].id]

\* The call passes only parameters of the function.
WellFormedCall ==
    /\ probe.op = "compute_cascade_impacts"
    /\ DOMAIN probe.kw \subseteq {"substation_threshold", "outage_radius_km"}

\* C27: a substation with no entry in risks_by_asset_id, or with an entry
\* that has no risk_score, counts as having risk 0.0: for every
\* substation_threshold > 0 it produces no cascade card, and the call
\* returns normally.
C27_UnscoredSubstationIsSkipped ==
    WellFormedCall
        => /\ probe.out.raised = ""
           /\ SubstationThreshold > 0
                => \A i \in OfType("substation") :
                       Unscored(i)
                           => \A k \in 1..Len(Cards) :
                                  Cards[k].trigger_asset_id # probe.assets[i].id

\* A substation with an entry that has no score and one with no entry, next
\* to a hospital: no card.
C27_Witness ==
    /\ WellFormedCall
    /\ probe.assets = <<AssetUniverse[1], AssetUniverse[2], AssetUniverse[3]>>
    /\ probe.risks = [id \in {"substation-1"} |-> [risk_bucket |-> "low"]]
    /\ probe.kw = EmptyDir
    /\ probe.out.raised = "" /\ probe.out.ret.cascade_cards = <<>>

====
